---- MODULE Spec2Model ----
(***************************************************************************)
(* Model of the audio-circuit-sim MNA engine (src/src/sim.rs) and of the   *)
(* schematic editor's selection handling (src/src/gui.rs).                 *)
(*                                                                         *)
(* Numbers.  The program computes in f64.  The model computes in decimal   *)
(* fixed point with five fractional digits: the integer x stands for the   *)
(* real x / One, so 1.0 is One, V_TOLERANCE = 5e-5 is 5 and 0.4 V is       *)
(* 40000.  Sums and differences are exact; products, quotients, exp and ln *)
(* are truncated to the grid.  Values below the grid (Is, G_MIN) are kept  *)
(* in scientific form [m, e] = m * 10^e and enter a computation through    *)
(* ToFix or LnSci.  NaN and the infinities are outside the model.          *)
(***************************************************************************)
EXTENDS Integers, Sequences, FiniteSets, TLC

VARIABLES
    nodes,      \* MNASystem.nodes: Vec<MNANodeInfo>
    a_matrix,   \* MNASystem.a_matrix: rows of MNACell
    b,          \* MNASystem.b: Vec<MNACell>
    time,       \* MNASystem.time
    net_size,   \* MNASystem.net_size
    vars,       \* MNASystem.vars: the pool of dynamic variables
    comps,      \* the components the client has constructed, in order
    stamped,    \* for each component, whether its stamp has run
    step_scale, \* the step_scale of the last init_lu pass (0 before the first)
    base,       \* the n of the client's last set_size(n) (0 before the first)
    op,         \* the last operation: [name, args, ret]
    pn,         \* a JunctionPN used on its own, as in tests::test_pn
    calls,      \* the newton calls made on pn: a sequence of [v, ret]
    checkpoint, \* the driver's copy of the state a step started from
    graphical_parts, \* MyApp.graphical_parts: Vec<GraphicalComponent>
    part_selected    \* MyApp.part_selected

sysvars == <<nodes, a_matrix, b, time, net_size, vars>>

guivars == <<graphical_parts, part_selected>>

allvars ==
    <<nodes, a_matrix, b, time, net_size, vars, comps, stamped, step_scale, base, op, pn,
      calls, checkpoint, graphical_parts, part_selected>>

\* the fixed-point representation of 1.0
One == 100000

\* ln 2, ln 10 and sqrt 2 on the fixed-point grid
Ln2 == 69315
Ln10 == 230259
Sqrt2 == 141421

Abs(x) == IF x < 0 THEN -x ELSE x

Sgn(x) == IF x < 0 THEN -1 ELSE IF x > 0 THEN 1 ELSE 0

\* floor(x * y / One) for x, y >= 0, split so that no intermediate product
\* leaves the 32-bit range
MulPos(x, y) ==
    LET xh == x \div One
        xl == x % One
        yh == y \div One
        yl == y % One
        u  == xl \div 1000
        w  == xl % 1000
        q1 == (u * yl) \div 100
        r1 == (u * yl) % 100
    IN  xh * yh * One + xh * yl + xl * yh + q1 + ((r1 * 1000 + w * yl) \div One)

\* the f64 product x * y
FMul(x, y) == Sgn(x) * Sgn(y) * MulPos(Abs(x), Abs(y))

RECURSIVE DivDigits(_, _, _, _)
\* n further decimal digits of rem / d, appended to acc
DivDigits(rem, d, n, acc) ==
    IF n = 0 THEN acc
    ELSE DivDigits((rem * 10) % d, d, n - 1, acc * 10 + ((rem * 10) \div d))

\* the f64 quotient x / y (y # 0)
FDiv(x, y) ==
    LET xx == Abs(x)
        yy == Abs(y)
    IN  Sgn(x) * Sgn(y) * DivDigits(xx % yy, yy, 5, xx \div yy)

RECURSIVE Pow2(_)
Pow2(k) == IF k <= 0 THEN 1 ELSE 2 * Pow2(k - 1)

RECURSIVE Pow10(_)
Pow10(k) == IF k <= 0 THEN 1 ELSE 10 * Pow10(k - 1)

RECURSIVE ExpSeries(_, _, _, _)
\* the Taylor series of exp(r) for 0 <= r < ln 2: acc + term + term*r/n + ...
ExpSeries(r, term, n, acc) ==
    IF term = 0 \/ n > 12 THEN acc
    ELSE ExpSeries(r, FMul(term, r) \div n, n + 1, acc + term)

\* f64::exp(x), by x = k ln 2 + r
FExp(x) ==
    LET k == x \div Ln2
        r == x % Ln2
        m == ExpSeries(r, One, 1, 0)
    IN  IF k >= 0 THEN m * Pow2(k)
        ELSE IF k < -30 THEN 0
        ELSE m \div Pow2(-k)

RECURSIVE LnReduce(_, _)
\* y = 2^k * m with One <= m < 2 One: the pair <<k, m>>
LnReduce(y, k) ==
    IF y >= 2 * One THEN LnReduce(y \div 2, k + 1)
    ELSE IF y < One THEN LnReduce(y * 2, k - 1)
    ELSE <<k, y>>

RECURSIVE AtanhSeries(_, _, _, _)
\* z + z^3/3 + z^5/5 + ... : pw is z^n
AtanhSeries(z2, pw, n, acc) ==
    IF pw = 0 \/ n > 15 THEN acc
    ELSE AtanhSeries(z2, FMul(pw, z2), n + 2, acc + (pw \div n))

\* f64::ln(y) for y > 0, by y = 2^k m and ln m = 2 atanh((m-1)/(m+1))
FLn(y) ==
    LET km == LnReduce(y, 0)
        m  == km[2]
        z  == FDiv(m - One, m + One)
    IN  km[1] * Ln2 + 2 * AtanhSeries(FMul(z, z), z, 1, 0)

\* the fixed-point value of the scientific number s = [m, e]
ToFix(s) ==
    IF s.e + 5 >= 0 THEN s.m * Pow10(s.e + 5)
    ELSE IF s.e + 5 < -9 THEN 0
    ELSE s.m \div Pow10(-(s.e + 5))

\* ln of the scientific number s = [m, e], m > 0
LnSci(s) == FLn(s.m * One) + s.e * Ln10

\* s * exp(x) for a scientific number s, computed as exp(ln s + x)
SciExp(s, x) == FExp(LnSci(s) + x)

\* ln(max(s, y)) for a scientific number s and a fixed-point number y
LnMaxSci(s, y) == IF y > ToFix(s) THEN FLn(y) ELSE LnSci(s)

(***************************************************************************)
(* Solver constants, sim.rs:4-14                                           *)
(***************************************************************************)
G_MIN == [m |-> 1, e |-> -12]

V_TOLERANCE == 5

V_THERMAL == 2600

MAX_ITER == 200

(***************************************************************************)
(* JunctionPN, sim.rs:514-574                                              *)
(***************************************************************************)
\* JunctionPN::new with a thermal voltage of 0.0258 V
JunctionPN_new_Thermal0258(is, n) ==
    LET nvt == FMul(n, 2580)
    IN  [geq   |-> FDiv(ToFix(is), FMul(n, 2580)) + ToFix(G_MIN),
         ieq   |-> 0,
         veq   |-> 0,
         is    |-> is,
         nvt   |-> nvt,
         rnvt  |-> FDiv(One, nvt),
         vcrit |-> FMul(nvt, FLn(nvt) - LnSci(is) - FLn(Sqrt2))]

\* JunctionPN::new(is, n): is scientific, n fixed point
JunctionPN_new(is, n) ==
    LET nvt == FMul(n, V_THERMAL)
    IN  [geq   |-> FDiv(ToFix(is), FMul(n, V_THERMAL)) + ToFix(G_MIN),
         ieq   |-> 0,
         veq   |-> 0,
         is    |-> is,
         nvt   |-> nvt,
         rnvt  |-> FDiv(One, nvt),
         \* nvt * ln(nvt / (is * sqrt 2)), the quotient taken inside the ln
         vcrit |-> FMul(nvt, FLn(nvt) - LnSci(is) - FLn(Sqrt2))]

\* linearize that forgets to record the new linearization point
linearize_KeepsVeq(j, v) ==
    LET e == SciExp(j.is, FMul(v, j.rnvt))
        i == e - ToFix(j.is) + FMul(ToFix(G_MIN), v)
        g == FMul(e, j.rnvt) + ToFix(G_MIN)
    IN  [j EXCEPT !.geq = g, !.ieq = FMul(v, g) - i]

\* JunctionPN::linearize(v)
linearize(j, v) ==
    LET e == SciExp(j.is, FMul(v, j.rnvt))
        i == e - ToFix(j.is) + FMul(ToFix(G_MIN), v)
        g == FMul(e, j.rnvt) + ToFix(G_MIN)
    IN  [j EXCEPT !.geq = g, !.ieq = FMul(v, g) - i, !.veq = v]

\* newton that accepts |dv| = V_TOLERANCE as converged
JunctionPN_newton_Inclusive(j, v) ==
    LET dv == v - j.veq
    IN  IF Abs(dv) <= V_TOLERANCE
        THEN [pn |-> j, ret |-> TRUE]
        ELSE LET vv == IF v > j.vcrit
                       THEN j.veq + FMul(j.nvt, LnMaxSci(j.is, One + FMul(dv, j.rnvt)))
                       ELSE v
             IN  [pn |-> linearize(j, vv), ret |-> FALSE]

\* newton that damps every step, also below vcrit
JunctionPN_newton_AlwaysDamps(j, v) ==
    LET dv == v - j.veq
    IN  IF Abs(dv) < V_TOLERANCE
        THEN [pn |-> j, ret |-> TRUE]
        ELSE LET vv == j.veq + FMul(j.nvt, LnMaxSci(j.is, One + FMul(dv, j.rnvt)))
             IN  [pn |-> linearize(j, vv), ret |-> FALSE]

\* JunctionPN::newton(v): the junction after the call and the value returned
JunctionPN_newton(j, v) ==
    LET dv == v - j.veq
    IN  IF Abs(dv) < V_TOLERANCE
        THEN [pn |-> j, ret |-> TRUE]
        ELSE LET vv == IF v > j.vcrit
                       THEN j.veq + FMul(j.nvt, LnMaxSci(j.is, One + FMul(dv, j.rnvt)))
                       ELSE v
             IN  [pn |-> linearize(j, vv), ret |-> FALSE]

\* DiodeParameters::default(): is and n
DiodeIs == [m |-> 35, e |-> -12]

DiodeN == 124000

DiodeRs == 10 * One

(***************************************************************************)
(* Vec<T>: a function on 0 .. len-1                                        *)
(***************************************************************************)
VLen(v) == Cardinality(DOMAIN v)

\* Vec::push
Push(v, x) == [i \in 0 .. VLen(v) |-> IF i < VLen(v) THEN v[i] ELSE x]

\* resize_with that refills the whole vector with d
resize_with_Clears(v, n, d) == [i \in 0 .. n - 1 |-> d]

\* Vec::resize_with(n, Default::default): truncate, or extend with d
resize_with(v, n, d) == [i \in 0 .. n - 1 |-> IF i \in DOMAIN v THEN v[i] ELSE d]

(***************************************************************************)
(* MNACell, sim.rs:37-78.  txt is kept as the list of the pieces appended. *)
(***************************************************************************)
DefaultCell ==
    [g |-> 0, g_timed |-> 0, g_dyn |-> <<>>, lu |-> 0, pre_lu |-> 0, txt |-> <<>>]

\* init_lu that accumulates into g instead of filling the cache
init_lu_WritesG(cell, scale) ==
    [cell EXCEPT !.g = cell.g + FMul(cell.g_timed, scale), !.pre_lu = cell.g]

\* MNACell::init_lu
init_lu(cell, scale) ==
    [cell EXCEPT !.pre_lu = cell.g + FMul(cell.g_timed, scale)]

RECURSIVE AddDyn(_, _, _)
\* the loop of update_pre: lu += vars[index] for each index of g_dyn, in order
AddDyn(lu, g_dyn, pool) ==
    IF g_dyn = <<>> THEN lu
    ELSE AddDyn(lu + pool[Head(g_dyn)], Tail(g_dyn), pool)

\* update_pre that adds the dynamic values on top of the old lu
update_pre_Accumulates(cell, pool) ==
    [cell EXCEPT !.lu = AddDyn(cell.lu + cell.pre_lu, cell.g_dyn, pool)]

\* MNACell::update_pre
update_pre(cell, pool) ==
    [cell EXCEPT !.lu = AddDyn(cell.pre_lu, cell.g_dyn, pool)]

(***************************************************************************)
(* MNANodeInfo, sim.rs:80-135.  A name is the tuple of its format pieces.  *)
(***************************************************************************)
new_voltage(n) == [info_type |-> "VOLTAGE", scale |-> One, name |-> <<"v", n>>]

new_voltage_with_name(name) == [info_type |-> "VOLTAGE", scale |-> One, name |-> name]

new_voltage_with_name_and_scale(name, scale) ==
    [info_type |-> "VOLTAGE", scale |-> scale, name |-> name]

\* new_current that builds a Voltage row
new_current_AsVoltage(name) == [info_type |-> "VOLTAGE", scale |-> One, name |-> name]

new_current(name) == [info_type |-> "CURRENT", scale |-> One, name |-> name]

new_current_with_scale(name, scale) ==
    [info_type |-> "CURRENT", scale |-> scale, name |-> name]

(***************************************************************************)
(* MNASystem, sim.rs:140-218.  An operation takes the system record m and  *)
(* yields the system after it (and the value returned, where there is one).*)
(***************************************************************************)
\* MNASystem::default()
DefaultSystem ==
    [nodes |-> <<>>, a_matrix |-> <<>>, b |-> <<>>, time |-> 0, net_size |-> 0,
     vars |-> <<>>]

\* set_size that resizes the vector of rows but not the rows
set_size_RowsNotResized(m, n) ==
    [m EXCEPT
        !.a_matrix = resize_with(m.a_matrix, n, <<>>),
        !.b = resize_with(m.b, n, DefaultCell),
        !.nodes = [i \in 0 .. n - 1 |-> new_voltage(i)],
        !.net_size = n]

\* MNASystem::set_size
set_size(m, n) ==
    LET rows == resize_with(m.a_matrix, n, <<>>)
    IN  [m EXCEPT
            !.a_matrix = [i \in 0 .. n - 1 |-> resize_with(rows[i], n, DefaultCell)],
            !.b = resize_with(m.b, n, DefaultCell),
            !.nodes = [i \in 0 .. n - 1 |-> new_voltage(i)],
            !.net_size = n]

\* stamp_static with row and column exchanged
stamp_static_Transposed(m, value, r, c, txt) ==
    [m EXCEPT !.a_matrix[c][r].g = @ + value, !.a_matrix[c][r].txt = Append(@, txt)]

\* MNASystem::stamp_static
stamp_static(m, value, r, c, txt) ==
    [m EXCEPT !.a_matrix[r][c].g = @ + value,
              !.a_matrix[r][c].txt = Append(@, txt)]

\* stamp_timed that adds the value to g
stamp_timed_IntoG(m, value, r, c, txt) ==
    [m EXCEPT !.a_matrix[r][c].g = @ + value,
              !.a_matrix[r][c].txt = Append(@, txt)]

\* MNASystem::stamp_timed
stamp_timed(m, value, r, c, txt) ==
    [m EXCEPT !.a_matrix[r][c].g_timed = @ + value,
              !.a_matrix[r][c].txt = Append(@, txt)]

\* reserve that returns the size after growing
reserve_ReturnsNewSize(m) ==
    [m |-> set_size([m EXCEPT !.net_size = @ + 1], m.net_size + 1),
     ret |-> m.net_size + 1]

\* MNASystem::reserve
reserve(m) ==
    [m |-> set_size([m EXCEPT !.net_size = @ + 1], m.net_size + 1),
     ret |-> m.net_size]

\* reserve_dynamic that returns the length after the push
reserve_dynamic_ReturnsNewLen(m) ==
    [m |-> [m EXCEPT !.vars = Push(@, 0)], ret |-> VLen(m.vars) + 1]

\* MNASystem::reserve_dynamic
reserve_dynamic(m) ==
    [m |-> [m EXCEPT !.vars = Push(@, 0)], ret |-> VLen(m.vars)]

\* MNASystem::set_dynamic
set_dynamic(m, index, v) == [m EXCEPT !.vars[index] = v]

\* MNASystem::add_dynamic_b
add_dynamic_b(m, r, index, text) ==
    [m EXCEPT !.b[r].g_dyn = Append(@, index), !.b[r].txt = <<text>>]

\* add_dynamic_a that pushes the reference on the cell of b
add_dynamic_a_IntoB(m, r, c, index, text) ==
    [m EXCEPT !.b[r].g_dyn = Append(@, index), !.b[r].txt = <<text>>]

\* MNASystem::add_dynamic_a
add_dynamic_a(m, r, c, index, text) ==
    [m EXCEPT !.a_matrix[r][c].g_dyn = Append(@, index),
              !.a_matrix[r][c].txt = <<text>>]

(***************************************************************************)
(* Components, sim.rs:220-905.  A component is a record of its struct's    *)
(* fields plus its type.  A label that the code builds with format! is the *)
(* tuple of its literal text and the numbers formatted into it.            *)
(***************************************************************************)
\* Resistor::new
Resistor_new(m, r, l0, l1) ==
    [m |-> m, self |-> [type |-> "Resistor", r |-> r, l0 |-> l0, l1 |-> l1]]

\* Resistor::stamp that stamps the resistance in place of the conductance
Resistor_stamp_UsesR(self, m) ==
    LET g  == self.r
        m1 == stamp_static(m, g, self.l0, self.l0, <<"+R", self.r>>)
        m2 == stamp_static(m1, -g, self.l0, self.l1, <<"-R", self.r>>)
        m3 == stamp_static(m2, -g, self.l1, self.l0, <<"-R", self.r>>)
    IN  stamp_static(m3, g, self.l1, self.l1, <<"+R", self.r>>)

\* Resistor::stamp
Resistor_stamp(self, m) ==
    LET g  == FDiv(One, self.r)
        m1 == stamp_static(m, g, self.l0, self.l0, <<"+R", self.r>>)
        m2 == stamp_static(m1, -g, self.l0, self.l1, <<"-R", self.r>>)
        m3 == stamp_static(m2, -g, self.l1, self.l0, <<"-R", self.r>>)
    IN  stamp_static(m3, g, self.l1, self.l1, <<"+R", self.r>>)

\* Capacitor::new
Capacitor_new(m, c, l0, l1) ==
    LET r1 == reserve(m)
        r2 == reserve_dynamic(r1.m)
    IN  [m |-> r2.m,
         self |-> [type |-> "Capacitor", c |-> c, l0 |-> l0, l1 |-> l1, l2 |-> r1.ret,
                   state_var |-> 0, voltage |-> 0, dyn_index |-> r2.ret]]

\* Capacitor::update_dynamic
Capacitor_update_dynamic(self, m) == set_dynamic(m, self.dyn_index, self.state_var)

\* Capacitor::stamp
Capacitor_stamp(self, m) ==
    LET l0 == self.l0
        l1 == self.l1
        l2 == self.l2
        g  == FMul(2 * One, self.c)
        m1 == stamp_timed(m, One, l0, l2, <<"+t">>)
        m2 == stamp_timed(m1, -One, l1, l2, <<"-t">>)
        m3 == stamp_timed(m2, -g, l0, l0, <<"-t*F", self.c>>)
        m4 == stamp_timed(m3, g, l0, l1, <<"+t*F", self.c>>)
        m5 == stamp_timed(m4, g, l1, l0, <<"+t*F", self.c>>)
        m6 == stamp_timed(m5, -g, l1, l1, <<"-t*F", self.c>>)
        m7 == stamp_static(m6, FMul(2 * One, g), l2, l0, <<"+2*F", self.c>>)
        m8 == stamp_static(m7, FMul(-2 * One, g), l2, l1, <<"-2*F", self.c>>)
        m9 == stamp_static(m8, -One, l2, l2, <<"-1">>)
        m10 == add_dynamic_b(m9, l2, self.dyn_index, <<"q:C:", l0, l1>>)
        m11 == [m10 EXCEPT !.nodes[l2] =
                   new_voltage_with_name_and_scale(<<"v:C:", l0, l1>>, FDiv(One, self.c))]
    IN  Capacitor_update_dynamic(self, m11)

\* Capacitor::update that reads state_var after b[l2].lu was overwritten
Capacitor_update_DisplayFirst(self, m) ==
    LET voltage == m.b[self.l0].lu - m.b[self.l1].lu
        m1      == [m EXCEPT !.b[self.l2].lu = FMul(self.c, voltage)]
        self1   == [self EXCEPT !.state_var = m1.b[self.l2].lu, !.voltage = voltage]
    IN  [self |-> self1, m |-> Capacitor_update_dynamic(self1, m1)]

\* Capacitor::update
Capacitor_update(self, m) ==
    LET state_var == m.b[self.l2].lu
        voltage   == m.b[self.l0].lu - m.b[self.l1].lu
        m1        == [m EXCEPT !.b[self.l2].lu = FMul(self.c, voltage)]
        self1     == [self EXCEPT !.state_var = state_var, !.voltage = voltage]
    IN  [self |-> self1, m |-> Capacitor_update_dynamic(self1, m1)]

\* Capacitor::scale_time that scales the whole state
Capacitor_scale_time_ScalesAll(self, m, t_old_per_new) ==
    LET self1 == [self EXCEPT !.state_var = FMul(self.state_var, t_old_per_new)]
    IN  [self |-> self1, m |-> Capacitor_update_dynamic(self1, m)]

\* Capacitor::scale_time
Capacitor_scale_time(self, m, t_old_per_new) ==
    LET qq    == FMul(FMul(2 * One, self.c), self.voltage)
        self1 == [self EXCEPT !.state_var = qq + FMul(self.state_var - qq, t_old_per_new)]
    IN  [self |-> self1, m |-> Capacitor_update_dynamic(self1, m)]

\* VoltageSource::new
VoltageSource_new(m, v, l0, l1) ==
    LET r1 == reserve(m)
    IN  [m |-> r1.m,
         self |-> [type |-> "VoltageSource", v |-> v, l0 |-> l0, l1 |-> l1, l2 |-> r1.ret]]

\* VoltageSource::stamp
VoltageSource_stamp(self, m) ==
    LET l0 == self.l0
        l1 == self.l1
        l2 == self.l2
        m1 == stamp_static(m, -One, l0, l2, <<"-1">>)
        m2 == stamp_static(m1, One, l1, l2, <<"+1">>)
        m3 == stamp_static(m2, One, l2, l0, <<"+1">>)
        m4 == stamp_static(m3, -One, l2, l1, <<"-1">>)
    IN  [m4 EXCEPT !.b[l2].g = self.v,
                   !.b[l2].txt = << <<"V", self.v>> >>,
                   !.nodes[l2] = new_current(<<"i:V(", self.v, l0, l1>>)]

\* VoltageProbe::new
VoltageProbe_new(m, l0, l1) ==
    LET r1 == reserve(m)
    IN  [m |-> r1.m,
         self |-> [type |-> "VoltageProbe", l0 |-> l0, l1 |-> l1, l2 |-> r1.ret]]

\* VoltageProbe::stamp
VoltageProbe_stamp(self, m) ==
    LET l2 == self.l2
        m1 == stamp_static(m, One, l2, self.l0, <<"+1">>)
        m2 == stamp_static(m1, -One, l2, self.l1, <<"-1">>)
        m3 == stamp_static(m2, -One, l2, l2, <<"-1">>)
    IN  [m3 EXCEPT !.nodes[l2] = new_voltage_with_name(<<"v:probe">>)]

\* the functions fn(f64) -> f64 a client may hand to VoltageFunction::new
Functions == {"one", "ramp"}

\* f(t)
Apply(f, t) == IF f = "one" THEN One ELSE 2 * t

\* VoltageFunction::new
VoltageFunction_new(m, f, l0, l1) ==
    LET r1 == reserve(m)
        r2 == reserve_dynamic(r1.m)
    IN  [m |-> r2.m,
         self |-> [type |-> "VoltageFunction", v |-> Apply(f, 0), f |-> f,
                   dyn_index |-> r2.ret, l0 |-> l0, l1 |-> l1, l2 |-> r1.ret]]

\* VoltageFunction::update_dynamic
VoltageFunction_update_dynamic(self, m) == set_dynamic(m, self.dyn_index, self.v)

\* VoltageFunction::stamp
VoltageFunction_stamp(self, m) ==
    LET l0 == self.l0
        l1 == self.l1
        l2 == self.l2
        m1 == stamp_static(m, -One, l0, l2, <<"-1">>)
        m2 == stamp_static(m1, One, l1, l2, <<"+1">>)
        m3 == stamp_static(m2, One, l2, l0, <<"+1">>)
        m4 == stamp_static(m3, -One, l2, l1, <<"-1">>)
        m5 == add_dynamic_b(m4, l2, self.dyn_index, <<"Vfn:", l0, l1>>)
        m6 == [m5 EXCEPT !.nodes[l2] = new_current(<<"i:Vfn:", l0, l1>>)]
    IN  VoltageFunction_update_dynamic(self, m6)

\* VoltageFunction::update that leaves the pool slot as it was
VoltageFunction_update_NoPool(self, m) ==
    [self |-> [self EXCEPT !.v = Apply(self.f, m.time)], m |-> m]

\* VoltageFunction::update
VoltageFunction_update(self, m) ==
    LET self1 == [self EXCEPT !.v = Apply(self.f, m.time)]
    IN  [self |-> self1, m |-> VoltageFunction_update_dynamic(self1, m)]

\* Diode::new, with params = [rs, is, n]
Diode_new(m, l0, l1, params) ==
    LET r1 == reserve(m)
        r2 == reserve(r1.m)
        r3 == reserve_dynamic(r2.m)
        r4 == reserve_dynamic(r3.m)
    IN  [m |-> r4.m,
         self |-> [type |-> "Diode", l0 |-> l0, l1 |-> l1, l2 |-> r1.ret, l3 |-> r2.ret,
                   dyn_index0 |-> r3.ret, dyn_index1 |-> r4.ret,
                   pn |-> JunctionPN_new(params.is, params.n), rs |-> params.rs]]

\* DiodeParameters::default()
DiodeParameters_default == [rs |-> DiodeRs, is |-> DiodeIs, n |-> DiodeN]

\* Diode::update_dynamic
Diode_update_dynamic(self, m) ==
    set_dynamic(set_dynamic(m, self.dyn_index0, self.pn.geq), self.dyn_index1, self.pn.ieq)

\* Diode::stamp
Diode_stamp(self, m) ==
    LET l0 == self.l0
        l1 == self.l1
        l2 == self.l2
        l3 == self.l3
        m1 == stamp_static(m, -One, l3, l0, <<"-1">>)
        m2 == stamp_static(m1, One, l3, l1, <<"+1">>)
        m3 == stamp_static(m2, One, l3, l2, <<"+1">>)
        m4 == stamp_static(m3, One, l0, l3, <<"+1">>)
        m5 == stamp_static(m4, -One, l1, l3, <<"-1">>)
        m6 == stamp_static(m5, -One, l2, l3, <<"-1">>)
        m7 == stamp_static(m6, self.rs, l3, l3, <<"rs:pn">>)
        m8 == add_dynamic_a(m7, l2, l2, self.dyn_index0, <<"gm:D">>)
        m9 == add_dynamic_b(m8, l2, self.dyn_index1, <<"i0:D:", l0, l1>>)
        m10 == [m9 EXCEPT !.nodes[l2] = new_voltage_with_name(<<"v:D:", l0, l1>>),
                          !.nodes[l3] = new_current(<<"i:D:", l0, l1>>)]
    IN  Diode_update_dynamic(self, m10)

\* Diode::newton
Diode_newton(self, m) ==
    LET r == JunctionPN_newton(self.pn, m.b[self.l2].lu)
    IN  [self |-> [self EXCEPT !.pn = r.pn], m |-> m, ret |-> r.ret]

\* the quotient s / y of a scientific number by a fixed-point number
SciDiv(s, y) == [m |-> FDiv(s.m * One, y) \div One, e |-> s.e]

\* BJTParameters::af
af(params) == FDiv(params.bf, One + params.bf)

\* ar computed from the forward gain
ar_UsesBf(params) == FDiv(params.bf, One + params.bf)

\* BJTParameters::ar
ar(params) == FDiv(params.br, One + params.br)

\* BJTParameters::rsbc
rsbc(params) == params.rb + params.rc

\* BJTParameters::rsbe
rsbe(params) == params.rb + params.re

\* BJTParameters::default(), with the given transistor type
BJTParameters_default(transistor_type) ==
    [bf |-> 200 * One, br |-> 20 * One, rb |-> 583760, re |-> 265711, rc |-> 10,
     is |-> [m |-> 6734, e |-> -18], n |-> 124000, transistor_type |-> transistor_type]

\* BJT::new
BJT_new(m, pb, pc, pe, params) ==
    LET pne == JunctionPN_new(SciDiv(params.is, af(params)), params.n)
        pnc == JunctionPN_new(SciDiv(params.is, ar(params)), params.n)
        r1  == reserve(m)
        r2  == reserve(r1.m)
        r3  == reserve(r2.m)
        r4  == reserve(r3.m)
        d1  == reserve_dynamic(r4.m)
        d2  == reserve_dynamic(d1.m)
        d3  == reserve_dynamic(d2.m)
        d4  == reserve_dynamic(d3.m)
    IN  [m |-> d4.m,
         self |-> [type |-> "BJT",
                   pin |-> [i \in 0 .. 2 |-> <<pb, pc, pe>>[i + 1]],
                   l |-> [i \in 0 .. 3 |-> <<r1.ret, r2.ret, r3.ret, r4.ret>>[i + 1]],
                   dyn_pnc_ieq |-> d1.ret, dyn_pnc_geq |-> d2.ret,
                   dyn_pne_ieq |-> d3.ret, dyn_pne_geq |-> d4.ret,
                   pnc |-> pnc, pne |-> pne, params |-> params]]

\* BJT::update_dynamic
BJT_update_dynamic(self, m) ==
    LET m1 == set_dynamic(m, self.dyn_pnc_ieq, self.pnc.ieq)
        m2 == set_dynamic(m1, self.dyn_pnc_geq, self.pnc.geq)
        m3 == set_dynamic(m2, self.dyn_pne_ieq, self.pne.ieq)
    IN  set_dynamic(m3, self.dyn_pne_geq, self.pne.geq)

\* BJT::stamp
BJT_stamp(self, m) ==
    LET pin == self.pin
        l   == self.l
        pnp == self.params.transistor_type = "PNP"
        m1  == stamp_static(m, One - ar(self.params), pin[0], l[2], <<"1-ar">>)
        m2  == stamp_static(m1, One - af(self.params), pin[0], l[3], <<"1-ar">>)
        m3  == stamp_static(m2, -One, pin[1], l[2], <<"-1">>)
        m4  == stamp_static(m3, -One, pin[2], l[3], <<"-1">>)
        m5  == stamp_static(m4, rsbc(self.params), l[2], l[2], <<"rsbc">>)
        m6  == stamp_static(m5, rsbe(self.params), l[3], l[3], <<"rsbe">>)
        m7  == IF pnp
               THEN stamp_static(
                        stamp_static(
                            stamp_static(
                                stamp_static(m6, -One, l[2], l[0], <<"-1">>),
                                One, l[0], l[2], <<"+1">>),
                            -One, l[3], l[1], <<"-1">>),
                        One, l[1], l[3], <<"+1">>)
               ELSE stamp_static(
                        stamp_static(
                            stamp_static(
                                stamp_static(m6, One, l[2], l[0], <<"+1">>),
                                -One, l[0], l[2], <<"-1">>),
                            One, l[3], l[1], <<"+1">>),
                        -One, l[1], l[3], <<"-1">>)
        m8  == stamp_static(m7, -One, l[2], pin[0], <<"-1">>)
        m9  == stamp_static(m8, One, l[2], pin[1], <<"+1">>)
        m10 == stamp_static(m9, -One, l[3], pin[0], <<"-1">>)
        m11 == stamp_static(m10, One, l[3], pin[2], <<"+1">>)
        m12 == stamp_static(m11, ar(self.params), pin[2], l[2], <<"+ar">>)
        m13 == stamp_static(m12, af(self.params), pin[1], l[3], <<"+af">>)
        m14 == add_dynamic_a(m13, l[0], l[0], self.dyn_pnc_geq, <<"gm:Qbc">>)
        m15 == add_dynamic_b(m14, l[0], self.dyn_pnc_ieq,
                             <<"i0:Q:cb", pin[0], pin[1], pin[2]>>)
        m16 == add_dynamic_a(m15, l[1], l[1], self.dyn_pne_geq, <<"gm:Qbe">>)
        m17 == add_dynamic_b(m16, l[1], self.dyn_pne_ieq,
                             <<"i0:Q:eb", pin[0], pin[1], pin[2]>>)
        m18 == [m17 EXCEPT
                   !.nodes[l[0]] = new_voltage_with_name(
                       <<(IF pnp THEN "v:Q:cb" ELSE "v:Q:bc"), pin[0], pin[1], pin[2]>>),
                   !.nodes[l[1]] = new_voltage_with_name(
                       <<(IF pnp THEN "v:Q:eb" ELSE "v:Q:be"), pin[0], pin[1], pin[2]>>),
                   !.nodes[l[2]] = new_current_with_scale(
                       <<"i:Q:bc", pin[0], pin[1], pin[2]>>, One - ar(self.params)),
                   !.nodes[l[3]] = new_current_with_scale(
                       <<"i:Q:be", pin[0], pin[1], pin[2]>>, One - af(self.params))]
    IN  BJT_update_dynamic(self, m18)

\* BJT::newton with || in place of &&
BJT_newton_Either(self, m) ==
    LET rc == JunctionPN_newton(self.pnc, m.b[self.l[0]].lu)
        re == JunctionPN_newton(self.pne, m.b[self.l[1]].lu)
    IN  IF rc.ret
        THEN [self |-> [self EXCEPT !.pnc = rc.pn], m |-> m, ret |-> TRUE]
        ELSE [self |-> [self EXCEPT !.pnc = rc.pn, !.pne = re.pn], m |-> m, ret |-> re.ret]

\* BJT::newton: pnc.newton(..) && pne.newton(..), the right operand evaluated
\* only when the left one is true
BJT_newton(self, m) ==
    LET rc == JunctionPN_newton(self.pnc, m.b[self.l[0]].lu)
        re == JunctionPN_newton(self.pne, m.b[self.l[1]].lu)
    IN  IF rc.ret
        THEN [self |-> [self EXCEPT !.pnc = rc.pn, !.pne = re.pn], m |-> m, ret |-> re.ret]
        ELSE [self |-> [self EXCEPT !.pnc = rc.pn], m |-> m, ret |-> FALSE]

(***************************************************************************)
(* trait Component, sim.rs:220-242: the dispatch on the component's type,  *)
(* with the trait's default bodies for the methods a type does not define. *)
(***************************************************************************)
\* Component::stamp
stamp(self, m) ==
    CASE self.type = "Resistor" -> Resistor_stamp(self, m)
      [] self.type = "Capacitor" -> Capacitor_stamp(self, m)
      [] self.type = "VoltageSource" -> VoltageSource_stamp(self, m)
      [] self.type = "VoltageProbe" -> VoltageProbe_stamp(self, m)
      [] self.type = "VoltageFunction" -> VoltageFunction_stamp(self, m)
      [] self.type = "Diode" -> Diode_stamp(self, m)
      [] self.type = "BJT" -> BJT_stamp(self, m)

\* Component::update_dynamic (default: nothing)
update_dynamic(self, m) ==
    CASE self.type = "Capacitor" -> Capacitor_update_dynamic(self, m)
      [] self.type = "VoltageFunction" -> VoltageFunction_update_dynamic(self, m)
      [] self.type = "Diode" -> Diode_update_dynamic(self, m)
      [] self.type = "BJT" -> BJT_update_dynamic(self, m)
      [] OTHER -> m

\* Component::update (default: self.update_dynamic(m))
update(self, m) ==
    CASE self.type = "Capacitor" -> Capacitor_update(self, m)
      [] self.type = "VoltageFunction" -> VoltageFunction_update(self, m)
      [] OTHER -> [self |-> self, m |-> update_dynamic(self, m)]

\* Component::newton (default: true)
newton(self, m) ==
    CASE self.type = "Diode" -> Diode_newton(self, m)
      [] self.type = "BJT" -> BJT_newton(self, m)
      [] OTHER -> [self |-> self, m |-> m, ret |-> TRUE]

\* Component::scale_time (default: nothing)
scale_time(self, m, t_old_per_new) ==
    CASE self.type = "Capacitor" -> Capacitor_scale_time(self, m, t_old_per_new)
      [] OTHER -> [self |-> self, m |-> m]

(***************************************************************************)
(* SpecPN: a junction used on its own, as tests::test_pn does: it is       *)
(* constructed, then newton(v) is called with voltages the client chooses. *)
(***************************************************************************)
\* the number of newton calls followed
MaxCalls == 3

\* voltages handed to newton: fixed ones, ...
PnVolts == {-20000, 0, 40000, 50000, 80000}

\* ... and ones next to the junction's veq and vcrit
TolOffsets == {-V_TOLERANCE, 1 - V_TOLERANCE, V_TOLERANCE - 1, V_TOLERANCE}

PnInputs(j) == PnVolts \cup {j.veq + d : d \in TolOffsets} \cup {j.vcrit, j.vcrit + 1}

\* the junctions the components construct with their default parameters
FreshDiodePN == JunctionPN_new(DiodeIs, DiodeN)

FreshJunctions ==
    {FreshDiodePN,
     JunctionPN_new(SciDiv(BJTParameters_default("NPN").is, af(BJTParameters_default("NPN"))),
                    BJTParameters_default("NPN").n)}

NoOp == [name |-> "init", args |-> <<>>, ret |-> 0]

\* the editor is not running
NoEditor == graphical_parts = <<>> /\ part_selected = 0

IdleSystem ==
    /\ nodes = DefaultSystem.nodes
    /\ a_matrix = DefaultSystem.a_matrix
    /\ b = DefaultSystem.b
    /\ time = DefaultSystem.time
    /\ net_size = DefaultSystem.net_size
    /\ vars = DefaultSystem.vars
    /\ comps = <<>>
    /\ stamped = <<>>
    /\ step_scale = 0
    /\ base = 0
    /\ op = NoOp
    /\ checkpoint = [time |-> 0, vars |-> <<>>, comps |-> <<>>]

PnInit ==
    /\ IdleSystem
    /\ NoEditor
    /\ pn \in FreshJunctions
    /\ calls = <<>>

\* pn.newton(v)
PnNewton(v) ==
    /\ Len(calls) < MaxCalls
    /\ LET r == JunctionPN_newton(pn, v)
       IN  /\ pn' = r.pn
           /\ calls' = Append(calls, [v |-> v, ret |-> r.ret, pre |-> pn])
    /\ UNCHANGED <<guivars, checkpoint, sysvars, comps, stamped, step_scale, base, op>>

PnNext == \E v \in PnInputs(pn) : PnNewton(v)

SpecPN == PnInit /\ [][PnNext]_allvars

\* the junction after the k-th call
PnPost(k) == IF k < Len(calls) THEN calls[k + 1].pre ELSE pn

\* v is within the tolerance of the junction's linearization point
WithinTolerance(j, v) == v - j.veq < V_TOLERANCE /\ j.veq - v < V_TOLERANCE

\* the voltage the Newton step linearizes at: v, or above vcrit the damped one
StepVoltage(j, v) ==
    IF v > j.vcrit
    THEN j.veq + FMul(j.nvt, LnMaxSci(j.is, One + FMul(v - j.veq, j.rnvt)))
    ELSE v

\* C7: newton(v) returns true exactly when |v - veq| < V_TOLERANCE, and then
\* geq, ieq and veq are unchanged; otherwise it returns false and the junction is
\* linearized at the (above vcrit: damped) voltage, which differs from the old veq.
C7_NewtonContract ==
    \A k \in 1 .. Len(calls) :
        LET c    == calls[k]
            post == PnPost(k)
        IN  /\ c.ret = WithinTolerance(c.pre, c.v)
            /\ c.ret => post = c.pre
            /\ ~c.ret =>
                  /\ post.veq = StepVoltage(c.pre, c.v)
                  /\ post.veq # c.pre.veq
                  /\ post = linearize(c.pre, post.veq)

\* a call above vcrit that was damped, and a call that returned true
C7_Witness ==
    /\ Len(calls) >= 2
    /\ \E k \in 1 .. Len(calls) :
          /\ ~calls[k].ret
          /\ calls[k].v > calls[k].pre.vcrit
          /\ PnPost(k).veq # calls[k].v
    /\ \E k \in 1 .. Len(calls) : calls[k].ret /\ calls[k].v # calls[k].pre.veq

\* C8 as stated: for v <= vcrit, after newton(v) the junction has veq = v, and
\* an immediately following newton(v) returns true and changes nothing
C8_Original ==
    \A k \in 1 .. Len(calls) :
        calls[k].v <= calls[k].pre.vcrit =>
            /\ PnPost(k).veq = calls[k].v
            /\ (k < Len(calls) /\ calls[k + 1].v = calls[k].v) =>
                  calls[k + 1].ret /\ PnPost(k + 1) = PnPost(k)

\* C8 amended: for v <= vcrit, newton(v) either re-linearizes at v itself
\* (veq = v) or, when v was already within tolerance, changes nothing; either
\* way an immediately following newton(v) returns true and changes nothing.
C8_OneStepBelowVcrit ==
    \A k \in 1 .. Len(calls) :
        LET c    == calls[k]
            post == PnPost(k)
        IN  c.v <= c.pre.vcrit =>
              /\ ~c.ret => post.veq = c.v
              /\ c.ret => post = c.pre /\ WithinTolerance(post, c.v)
              /\ (k < Len(calls) /\ calls[k + 1].v = c.v) =>
                    calls[k + 1].ret /\ PnPost(k + 1) = post

\* a re-linearizing call below vcrit followed by the same call again
C8_Witness ==
    \E k \in 1 .. Len(calls) - 1 :
        /\ calls[k].v <= calls[k].pre.vcrit
        /\ ~calls[k].ret
        /\ calls[k + 1].v = calls[k].v
        /\ calls[k + 1].ret

\* C9 as stated: on a fresh default junction newton(0.4) returns true
C9_Original ==
    (Len(calls) >= 1 /\ calls[1].pre = FreshDiodePN /\ calls[1].v = 40000)
        => calls[1].ret

\* C9 amended: on a fresh default junction (veq = 0) newton(0.4) returns
\* false and moves veq to 0.4; it is the next newton(0.4) that returns true.
C9_FreshNewton ==
    (Len(calls) >= 1 /\ calls[1].pre = FreshDiodePN /\ calls[1].v = 40000)
        => /\ ~calls[1].ret
           /\ PnPost(1).veq = 40000
           /\ (Len(calls) >= 2 /\ calls[2].v = 40000) => calls[2].ret

\* the two calls newton(0.4), newton(0.4) on a fresh default junction
C9_Witness ==
    /\ Len(calls) >= 2
    /\ calls[1].pre = FreshDiodePN
    /\ calls[1].pre.veq = 0
    /\ calls[1].v = 40000
    /\ calls[2].v = 40000
    /\ calls[2].ret

(***************************************************************************)
(* SpecBuild: the construction of a netlist.  The client sizes a fresh     *)
(* system with set_size, then constructs components on existing nets and   *)
(* stamps each of them once, in any interleaving.                          *)
(***************************************************************************)
\* the largest n handed to set_size
MaxBase == 3

\* the number of components constructed
MaxComps == 2

\* parameter values of the components constructed
ResistorValues == {2 * One}

\* Capacitor::new takes any f64: a capacitance and a negative one
CapacitorValues == {One \div 2, -(One \div 2)}

SourceValues == {5 * One}

TransistorTypes == {"NPN", "PNP"}

\* the system as one record
Sys ==
    [nodes |-> nodes, a_matrix |-> a_matrix, b |-> b, time |-> time,
     net_size |-> net_size, vars |-> vars]

\* the system becomes m
SetSys(m) ==
    /\ nodes' = m.nodes
    /\ a_matrix' = m.a_matrix
    /\ b' = m.b
    /\ time' = m.time
    /\ net_size' = m.net_size
    /\ vars' = m.vars

\* the pins of a component: consecutive base nodes (modulo base) from node k
Pin(k) == k % base

\* the nodes a component's first pin is put on
FirstPins == {0, base - 1} \cap (0 .. base - 1)

BuildInit ==
    /\ IdleSystem
    /\ NoEditor
    /\ pn = FreshDiodePN
    /\ calls = <<>>

\* s.set_size(n) on a system without components
SetSize(n) ==
    /\ comps = <<>>
    /\ SetSys(set_size(Sys, n))
    /\ base' = n
    /\ op' = [name |-> "set_size", args |-> <<n>>, ret |-> 0]
    /\ UNCHANGED <<guivars, checkpoint, comps, stamped, step_scale, pn, calls>>

\* the constructor call whose result is r = [m, self]
Construct(name, r) ==
    /\ Len(comps) < MaxComps
    /\ SetSys(r.m)
    /\ comps' = Append(comps, r.self)
    /\ stamped' = Append(stamped, FALSE)
    /\ op' = [name |-> name, args |-> <<Len(comps) + 1>>, ret |-> 0]
    /\ UNCHANGED <<guivars, checkpoint, step_scale, base, pn, calls>>

NewResistor(r, l0, l1) == Construct("Resistor::new", Resistor_new(Sys, r, l0, l1))

NewCapacitor(c, l0, l1) == Construct("Capacitor::new", Capacitor_new(Sys, c, l0, l1))

NewVoltageSource(v, l0, l1) ==
    Construct("VoltageSource::new", VoltageSource_new(Sys, v, l0, l1))

NewVoltageProbe(l0, l1) == Construct("VoltageProbe::new", VoltageProbe_new(Sys, l0, l1))

NewVoltageFunction(f, l0, l1) ==
    Construct("VoltageFunction::new", VoltageFunction_new(Sys, f, l0, l1))

NewDiode(l0, l1) == Construct("Diode::new", Diode_new(Sys, l0, l1, DiodeParameters_default))

NewBJT(t, pb, pc, pe) ==
    Construct("BJT::new", BJT_new(Sys, pb, pc, pe, BJTParameters_default(t)))

\* comps[i].stamp(&mut s), the components stamped in the order of construction
StampComp(i) ==
    /\ ~stamped[i]
    /\ \A j \in 1 .. i - 1 : stamped[j]
    /\ SetSys(stamp(comps[i], Sys))
    /\ stamped' = [stamped EXCEPT ![i] = TRUE]
    /\ op' = [name |-> "stamp", args |-> <<i>>, ret |-> 0]
    /\ UNCHANGED <<guivars, checkpoint, comps, step_scale, base, pn, calls>>

BuildNext ==
    \/ \E n \in 0 .. MaxBase : SetSize(n)
    \/ \E k \in FirstPins, r \in ResistorValues : NewResistor(r, k, Pin(k + 1))
    \/ \E k \in FirstPins, c \in CapacitorValues : NewCapacitor(c, k, Pin(k + 1))
    \/ \E k \in FirstPins, v \in SourceValues : NewVoltageSource(v, k, Pin(k + 1))
    \/ \E k \in FirstPins : NewVoltageProbe(k, Pin(k + 1))
    \/ \E k \in FirstPins, f \in Functions : NewVoltageFunction(f, k, Pin(k + 1))
    \/ \E k \in FirstPins : NewDiode(k, Pin(k + 1))
    \/ \E k \in FirstPins, t \in TransistorTypes : NewBJT(t, k, Pin(k + 1), Pin(k + 2))
    \/ \E i \in 1 .. Len(comps) : StampComp(i)

SpecBuild == BuildInit /\ [][BuildNext]_allvars

\* the nets a component reserved, in the order of its reserve() calls
InternalNets(self) ==
    CASE self.type = "Resistor" -> <<>>
      [] self.type = "Diode" -> <<self.l2, self.l3>>
      [] self.type = "BJT" -> <<self.l[0], self.l[1], self.l[2], self.l[3]>>
      [] OTHER -> <<self.l2>>

RECURSIVE AllReserved(_)
\* the values returned by all reserve() calls so far, in order
AllReserved(cs) ==
    IF cs = <<>> THEN <<>> ELSE InternalNets(Head(cs)) \o AllReserved(Tail(cs))

\* C3: after any sequence of set_size and reserve calls a_matrix has net_size
\* rows of net_size cells each, b has net_size cells and nodes net_size entries;
\* and on a system nothing was stamped on, every cell is the default cell.
C3_SquareSystem ==
    /\ DOMAIN a_matrix = 0 .. net_size - 1
    /\ \A r \in DOMAIN a_matrix : DOMAIN a_matrix[r] = 0 .. net_size - 1
    /\ DOMAIN b = 0 .. net_size - 1
    /\ DOMAIN nodes = 0 .. net_size - 1
    /\ (\A i \in 1 .. Len(stamped) : ~stamped[i]) =>
          /\ \A r \in DOMAIN a_matrix : \A c \in DOMAIN a_matrix[r] :
                a_matrix[r][c] = DefaultCell
          /\ \A r \in DOMAIN b : b[r] = DefaultCell

\* a sized system grown by two reserve calls, nothing stamped yet
C3_Witness ==
    /\ base >= 1
    /\ net_size >= base + 2
    /\ \A i \in 1 .. Len(stamped) : ~stamped[i]

\* C4: when the system grows (reserve, or set_size to a larger n) every cell of
\* A and b below the old size is unchanged, and when the pool grows
\* (reserve_dynamic) every existing pool entry keeps its value.
C4_GrowthPreserves ==
    [][(net_size' > net_size \/ VLen(vars') > VLen(vars)) =>
          /\ \A r \in 0 .. net_size - 1 :
                /\ b'[r] = b[r]
                /\ \A c \in 0 .. net_size - 1 : a_matrix'[r][c] = a_matrix[r][c]
          /\ \A i \in DOMAIN vars : vars'[i] = vars[i]]_allvars

\* a stamped voltage function (cells and a pool entry that are not zero)
\* followed by the construction of a component that reserves a net and a slot
C4_Witness ==
    /\ Len(comps) = 2
    /\ stamped[1]
    /\ op.name \in {"Capacitor::new", "Diode::new", "BJT::new"}
    /\ comps[1].type = "VoltageFunction"
    /\ vars[comps[1].dyn_index] = One
    /\ a_matrix[comps[1].l2][comps[1].l0].g # 0
    /\ b[comps[1].l2].g_dyn # <<>>
    /\ VLen(vars) > 1
    /\ net_size > comps[1].l2 + 1

\* C5 as stated: growing the system leaves the NodeInfo of every existing row
\* alone, so the rows a stamped component has marked keep the marking its stamp
\* gave them.
C5_Original ==
    \A i \in 1 .. Len(comps) :
        stamped[i] =>
            \A k \in 1 .. Len(InternalNets(comps[i])) :
                LET l == InternalNets(comps[i])[k]
                IN  nodes[l] = stamp(comps[i], Sys).nodes[l]

\* C6: each reserve() grows the system by one and returns the size before the
\* call: the indices returned so far are base, base + 1, ... in this order, where
\* base is the n of the initial set_size(n); so they increase strictly, are
\* pairwise distinct and are none of the base nodes 0 .. base - 1.
C6_ReserveIndices ==
    LET rs == AllReserved(comps)
    IN  /\ net_size = base + Len(rs)
        /\ \A k \in 1 .. Len(rs) : rs[k] = base + k - 1

\* three or more reserve calls on a system with base nodes
C6_Witness == base >= 1 /\ Len(AllReserved(comps)) >= 3

(***************************************************************************)
(* SpecSolve: the solving phase on a stamped netlist.  The netlist is      *)
(* built by the constructors and stamps above; then the operations of the  *)
(* solving phase run in any order.  The repository holds no solver driver: *)
(* Refresh and Load are the passes of init_lu and update_pre over all      *)
(* cells that spec section 4.2 names, and LuSolve stands for the           *)
(* factorization and substitution of section 4.5, of which the model keeps *)
(* only that they overwrite lu.                                            *)
(***************************************************************************)
\* one item of a netlist: a component to construct and stamp, or a direct
\* add_dynamic_b / add_dynamic_a call of the client
Item(type, p, l0, l1) == [type |-> type, p |-> p, l0 |-> l0, l1 |-> l1]

\* the netlists solved, each on set_size(2)
Netlists ==
    {<<Item("Capacitor", One \div 2, 1, 0), Item("Resistor", 2 * One, 0, 1),
       Item("add_dynamic_b", 0, 2, 0), Item("add_dynamic_a", 0, 1, 0)>>,
     <<Item("Diode", 0, 1, 0), Item("VoltageSource", One \div 2, 1, 0)>>,
     <<Item("BJT", "NPN", 1, 0)>>,
     <<Item("BJT", "PNP", 0, 1), Item("VoltageProbe", 0, 0, 1)>>,
     <<Item("VoltageFunction", "one", 1, 0), Item("Resistor", 2 * One, 0, 1),
       Item("add_dynamic_b", 0, 2, 0), Item("add_dynamic_b", 0, 2, 0)>>,
     <<Item("VoltageFunction", "ramp", 0, 1), Item("VoltageFunction", "one", 1, 0)>>}

\* the constructor call for a netlist item
NewItem(m, it) ==
    CASE it.type = "Resistor" -> Resistor_new(m, it.p, it.l0, it.l1)
      [] it.type = "Capacitor" -> Capacitor_new(m, it.p, it.l0, it.l1)
      [] it.type = "VoltageSource" -> VoltageSource_new(m, it.p, it.l0, it.l1)
      [] it.type = "VoltageProbe" -> VoltageProbe_new(m, it.l0, it.l1)
      [] it.type = "VoltageFunction" -> VoltageFunction_new(m, it.p, it.l0, it.l1)
      [] it.type = "Diode" -> Diode_new(m, it.l0, it.l1, DiodeParameters_default)
      [] it.type = "BJT" ->
            BJT_new(m, it.l0, it.l1, it.l0, BJTParameters_default(it.p))

RECURSIVE BuildNetlist(_, _, _)
\* the system and the components after constructing and stamping the items
BuildNetlist(m, cs, items) ==
    IF items = <<>> THEN [m |-> m, comps |-> cs]
    ELSE LET it == Head(items)
         IN  CASE it.type = "add_dynamic_b" ->
                    BuildNetlist(add_dynamic_b(m, it.l0, it.l1, <<"dyn">>), cs, Tail(items))
               [] it.type = "add_dynamic_a" ->
                    BuildNetlist(add_dynamic_a(m, it.l0, it.l0, it.l1, <<"dyn">>), cs,
                                 Tail(items))
               [] OTHER ->
                    LET r == NewItem(m, it)
                    IN  BuildNetlist(stamp(r.self, r.m), Append(cs, r.self), Tail(items))

SolveInit ==
    \E items \in Netlists :
        LET r == BuildNetlist(set_size(DefaultSystem, 2), <<>>, items)
        IN  /\ nodes = r.m.nodes
            /\ a_matrix = r.m.a_matrix
            /\ b = r.m.b
            /\ time = r.m.time
            /\ net_size = r.m.net_size
            /\ vars = r.m.vars
            /\ comps = r.comps
            /\ stamped = [i \in 1 .. Len(r.comps) |-> TRUE]
            /\ step_scale = 0
            /\ base = 2
            /\ op = NoOp
            /\ pn = FreshDiodePN
            /\ calls = <<>>
            /\ checkpoint = [time |-> 0, vars |-> <<>>, comps |-> <<>>]
            /\ NoEditor

\* the values of step_scale = 1 / dt
StepScales == {One, 2 * One}

\* the factors t_old_per_new handed to scale_time
ScaleFactors == {2 * One}

\* the largest |state_var| a capacitor is rescaled at
MaxCharge == 1

\* b.lu holds a solution: newton and update read it after the solve of the
\* same iteration (spec section 4.5), before the next load overwrites it
Solved == op.name \in {"solve", "newton", "update"}

\* the solutions the solver may leave in b[..].lu: row r of solution k
SolveValues == <<0, V_TOLERANCE - 1, 40000, 60000>>

SolveValue(k, r) == SolveValues[((k + r) % Len(SolveValues)) + 1]

\* init_lu(step_scale) on every cell of A and b
Refresh(s) ==
    /\ a_matrix' = [r \in DOMAIN a_matrix |->
                       [c \in DOMAIN a_matrix[r] |-> init_lu(a_matrix[r][c], s)]]
    /\ b' = [r \in DOMAIN b |-> init_lu(b[r], s)]
    /\ step_scale' = s
    /\ op' = [name |-> "init_lu", args |-> <<s>>, ret |-> 0]
    /\ UNCHANGED <<guivars, checkpoint, nodes, time, net_size, vars, comps, stamped, base, pn, calls>>

\* update_pre(&vars) on every cell of A and b
Load ==
    /\ a_matrix' = [r \in DOMAIN a_matrix |->
                       [c \in DOMAIN a_matrix[r] |-> update_pre(a_matrix[r][c], vars)]]
    /\ b' = [r \in DOMAIN b |-> update_pre(b[r], vars)]
    /\ op' = [name |-> "update_pre", args |-> <<>>, ret |-> 0]
    /\ UNCHANGED <<guivars, checkpoint, nodes, time, net_size, vars, comps, stamped, step_scale, base, pn, calls>>

\* factorization and solution: lu of A is destroyed, lu of b is the solution
LuSolve(k) ==
    /\ a_matrix' = [r \in DOMAIN a_matrix |->
                       [c \in DOMAIN a_matrix[r] |->
                           [a_matrix[r][c] EXCEPT !.lu = SolveValue(k, r + c)]]]
    /\ b' = [r \in DOMAIN b |-> [b[r] EXCEPT !.lu = SolveValue(k, r)]]
    /\ op' = [name |-> "solve", args |-> <<k>>, ret |-> 0]
    /\ UNCHANGED <<guivars, checkpoint, nodes, time, net_size, vars, comps, stamped, step_scale, base, pn, calls>>

\* comps[i].update_dynamic(&mut s)
UpdateDynamic(i) ==
    /\ SetSys(update_dynamic(comps[i], Sys))
    /\ op' = [name |-> "update_dynamic", args |-> <<i>>, ret |-> 0]
    /\ UNCHANGED <<guivars, checkpoint, comps, stamped, step_scale, base, pn, calls>>

\* comps[i].update(&mut s)
Update(i) ==
    /\ Solved
    /\ LET r == update(comps[i], Sys)
       IN  SetSys(r.m) /\ comps' = [comps EXCEPT ![i] = r.self]
    /\ op' = [name |-> "update", args |-> <<i>>, ret |-> 0]
    /\ UNCHANGED <<guivars, checkpoint, stamped, step_scale, base, pn, calls>>

\* comps[i].newton(&mut s)
Newton(i) ==
    /\ Solved
    /\ LET r == newton(comps[i], Sys)
       IN  /\ SetSys(r.m)
           /\ comps' = [comps EXCEPT ![i] = r.self]
           /\ op' = [name |-> "newton", args |-> <<i>>, ret |-> r.ret]
    /\ UNCHANGED <<guivars, checkpoint, stamped, step_scale, base, pn, calls>>

\* comps[i].scale_time(&mut s, k)
ScaleTime(i, k) ==
    /\ comps[i].type = "Capacitor" => Abs(comps[i].state_var) <= MaxCharge * One
    /\ LET r == scale_time(comps[i], Sys, k)
       IN  SetSys(r.m) /\ comps' = [comps EXCEPT ![i] = r.self]
    /\ op' = [name |-> "scale_time", args |-> <<i, k>>, ret |-> 0]
    /\ UNCHANGED <<guivars, checkpoint, stamped, step_scale, base, pn, calls>>

\* the largest system time, in seconds
MaxTime == 1

\* system.time += dt with dt = 1 / step_scale, after the updates of a step
AdvanceTime ==
    /\ step_scale # 0
    /\ op.name = "update"
    /\ time + FDiv(One, step_scale) <= MaxTime * One
    /\ time' = time + FDiv(One, step_scale)
    /\ op' = [name |-> "advance", args |-> <<>>, ret |-> 0]
    /\ UNCHANGED <<guivars, checkpoint, nodes, a_matrix, b, net_size, vars, comps, stamped, step_scale, base,
                   pn, calls>>

SolveNext ==
    \/ \E s \in StepScales : Refresh(s)
    \/ Load
    \/ \E k \in 0 .. Len(SolveValues) - 1 : LuSolve(k)
    \/ \E i \in 1 .. Len(comps) : UpdateDynamic(i)
    \/ \E i \in 1 .. Len(comps) : Update(i)
    \/ \E i \in 1 .. Len(comps) : Newton(i)
    \/ \E i \in 1 .. Len(comps), k \in ScaleFactors : ScaleTime(i, k)
    \/ AdvanceTime

SpecSolve == SolveInit /\ [][SolveNext]_allvars

\* the cells of A and of b
Cells ==
    {a_matrix[r][c] : r \in DOMAIN a_matrix, c \in DOMAIN a_matrix} \cup {b[r] : r \in DOMAIN b}

RECURSIVE PoolSum(_, _)
\* the sum over the first n pool slots of the slot's value times the number of
\* times the cell refers to it
PoolSum(cell, n) ==
    IF n = 0 THEN 0
    ELSE PoolSum(cell, n - 1)
         + vars[n - 1] * Cardinality({k \in 1 .. Len(cell.g_dyn) : cell.g_dyn[k] = n - 1})

\* C1: after init_lu(step_scale) on a cell followed by update_pre(pool), the
\* cell's lu is g + g_timed * step_scale + the sum over its dynamic references
\* (with multiplicity) of the pool values, whatever lu was before
C1_LoadedValue ==
    (op.name = "update_pre" /\ step_scale # 0) =>
        \A cell \in Cells :
            cell.lu = cell.g + FMul(cell.g_timed, step_scale) + PoolSum(cell, VLen(vars))

\* a load after a solve and an update: a cell with two references to a nonzero
\* pool slot, a cell with a timed part, and an lu that is not the pre_lu
C1_Witness ==
    /\ op.name = "update_pre"
    /\ step_scale = 2 * One
    /\ \E cell \in Cells : cell.g_timed # 0 /\ cell.lu # cell.g
    /\ \E cell \in Cells :
          /\ Len(cell.g_dyn) >= 2
          /\ cell.g_dyn[1] = cell.g_dyn[2]
          /\ vars[cell.g_dyn[1]] # 0
          /\ cell.lu # cell.pre_lu

\* the fields of a cell that stamping writes
StaticPart(cell) == <<cell.g, cell.g_timed, cell.g_dyn, cell.txt>>

\* C2: init_lu, update_pre, set_dynamic and the components' update_dynamic,
\* update, newton and scale_time leave g, g_timed, the dynamic references and
\* the label of every cell as they are; pre_lu is written by init_lu only
C2_SolvingKeepsStamps ==
    [][/\ \A r \in DOMAIN b :
             /\ StaticPart(b'[r]) = StaticPart(b[r])
             /\ \A c \in DOMAIN b :
                    StaticPart(a_matrix'[r][c]) = StaticPart(a_matrix[r][c])
       /\ op'.name # "init_lu" =>
             \A r \in DOMAIN b :
                 /\ b'[r].pre_lu = b[r].pre_lu
                 /\ \A c \in DOMAIN b : a_matrix'[r][c].pre_lu = a_matrix[r][c].pre_lu]_allvars

\* a capacitor's update has written its charge into the pool and its row of b
C2_Witness ==
    /\ op.name = "update"
    /\ step_scale # 0
    /\ \E i \in 1 .. Len(comps) :
          /\ op.args = <<i>>
          /\ comps[i].type = "Capacitor"
          /\ comps[i].state_var # 0
          /\ vars[comps[i].dyn_index] = comps[i].state_var
          /\ b[comps[i].l2].g_dyn # <<>>
          /\ a_matrix[comps[i].l2][comps[i].l2].g = -One
          /\ a_matrix[comps[i].l0][comps[i].l2].pre_lu # 0

\* C10: BJT::newton returns true exactly when both junctions are within
\* V_TOLERANCE of their linearization points
C10_BJTNewton ==
    [][\A i \in 1 .. Len(comps) :
          (op'.name = "newton" /\ op'.args = <<i>> /\ comps[i].type = "BJT") =>
              (op'.ret = (/\ WithinTolerance(comps[i].pnc, b[comps[i].l[0]].lu)
                          /\ WithinTolerance(comps[i].pne, b[comps[i].l[1]].lu)))]_allvars

\* a newton that is false because of the emitter junction alone: the collector
\* junction is within tolerance and kept, the emitter junction was stepped
C10_Witness ==
    /\ op.name = "newton"
    /\ op.ret = FALSE
    /\ \E i \in 1 .. Len(comps) :
          /\ op.args = <<i>>
          /\ comps[i].type = "BJT"
          /\ WithinTolerance(comps[i].pnc, b[comps[i].l[0]].lu)
          /\ comps[i].pnc.veq # b[comps[i].l[0]].lu
          /\ comps[i].pne.veq = b[comps[i].l[1]].lu
          /\ comps[i].pne.veq >= V_TOLERANCE

(***************************************************************************)
(* The stamps of the components, checked on SpecBuild.                     *)
(***************************************************************************)
\* the sign of a transistor's junctions: +1 for NPN, -1 for PNP
JunctionSign(self) == IF self.params.transistor_type = "PNP" THEN -One ELSE One

\* the stamped transistors
StampedBJTs == {i \in 1 .. Len(comps) : stamped[i] /\ comps[i].type = "BJT"}

\* C11 as stated: the four coupling cells A[v_bc][i_bc], A[i_bc][v_bc],
\* A[v_be][i_be], A[i_be][v_be] of a stamped transistor each hold s
C11_Original ==
    \A i \in StampedBJTs :
        LET l == comps[i].l
            s == JunctionSign(comps[i])
        IN  /\ a_matrix[l[0]][l[2]].g = s
            /\ a_matrix[l[2]][l[0]].g = s
            /\ a_matrix[l[1]][l[3]].g = s
            /\ a_matrix[l[3]][l[1]].g = s

\* C11 amended: with s = +1 for NPN and s = -1 for PNP, the cells of the
\* current rows, A[i_bc][v_bc] and A[i_be][v_be], hold +s, and the cells of the
\* junction rows, A[v_bc][i_bc] and A[v_be][i_be], hold -s
C11_CouplingSigns ==
    \A i \in StampedBJTs :
        LET l == comps[i].l
            s == JunctionSign(comps[i])
        IN  /\ a_matrix[l[2]][l[0]].g = s
            /\ a_matrix[l[3]][l[1]].g = s
            /\ a_matrix[l[0]][l[2]].g = -s
            /\ a_matrix[l[1]][l[3]].g = -s

\* a stamped PNP transistor next to a stamped NPN one
C11_Witness ==
    /\ \E i \in StampedBJTs :
          /\ comps[i].params.transistor_type = "PNP"
          /\ a_matrix[comps[i].l[2]][comps[i].l[0]].g = -One
          /\ a_matrix[comps[i].l[0]][comps[i].l[2]].g = One
    /\ \E i \in StampedBJTs :
          /\ comps[i].params.transistor_type = "NPN"
          /\ a_matrix[comps[i].l[3]][comps[i].l[1]].g = One

RECURSIVE SumAt(_, _, _)
\* the sum of the values that the entries <<r, c, value>> give for cell (r, c)
SumAt(entries, r, c) ==
    IF entries = <<>> THEN 0
    ELSE (IF Head(entries)[1] = r /\ Head(entries)[2] = c THEN Head(entries)[3] ELSE 0)
         + SumAt(Tail(entries), r, c)

RECURSIVE RefsAt(_, _, _)
\* the pool indices that the entries <<r, c, index>> give for cell (r, c)
RefsAt(entries, r, c) ==
    IF entries = <<>> THEN <<>>
    ELSE (IF Head(entries)[1] = r /\ Head(entries)[2] = c
          THEN <<Head(entries)[3]>> ELSE <<>>)
         \o RefsAt(Tail(entries), r, c)

\* this step is comps[i].stamp(&mut s)
StampStep(i) == ~stamped[i] /\ stamped'[i] /\ op'.name = "stamp" /\ op'.args = <<i>>

\* the step adds to A exactly the static entries gs, the timed entries ts and
\* the dynamic references da, except that g is left open on the cells in skip;
\* and to b exactly the static entries bs and the dynamic references db
\* (entries of b as <<r, 0, value>>)
CellsChangeBy(gs, ts, da, bs, db, skip) ==
    /\ \A r \in DOMAIN a_matrix : \A c \in DOMAIN a_matrix :
          /\ <<r, c>> \notin skip =>
                a_matrix'[r][c].g = a_matrix[r][c].g + SumAt(gs, r, c)
          /\ a_matrix'[r][c].g_timed = a_matrix[r][c].g_timed + SumAt(ts, r, c)
          /\ a_matrix'[r][c].g_dyn = a_matrix[r][c].g_dyn \o RefsAt(da, r, c)
    /\ \A r \in DOMAIN b :
          /\ b'[r].g = b[r].g + SumAt(bs, r, 0)
          /\ b'[r].g_timed = b[r].g_timed
          /\ b'[r].g_dyn = b[r].g_dyn \o RefsAt(db, r, 0)

\* C12: BJT::stamp adds, for NPN and PNP alike, 1-aR, 1-aF, -1, +aF, +aR, -1 on
\* the pin rows B, C, E in the columns i_bc, i_be; -1, +1, Rb+Rc on row i_bc and
\* -1, +1, Rb+Re on row i_be; it registers the four pool slots on
\* A[v_bc][v_bc], b[v_bc], A[v_be][v_be], b[v_be]; and it puts no other static
\* value anywhere, the four coupling cells apart
C12_BJTStamp ==
    [][\A i \in 1 .. Len(comps) :
          (StampStep(i) /\ comps[i].type = "BJT") =>
              LET self == comps[i]
                  B    == self.pin[0]
                  C    == self.pin[1]
                  E    == self.pin[2]
                  v_bc == self.l[0]
                  v_be == self.l[1]
                  i_bc == self.l[2]
                  i_be == self.l[3]
                  aF   == FDiv(self.params.bf, One + self.params.bf)
                  aR   == FDiv(self.params.br, One + self.params.br)
              IN  CellsChangeBy(
                      << <<B, i_bc, One - aR>>, <<B, i_be, One - aF>>,
                         <<C, i_bc, -One>>, <<C, i_be, aF>>,
                         <<E, i_bc, aR>>, <<E, i_be, -One>>,
                         <<i_bc, B, -One>>, <<i_bc, C, One>>,
                         <<i_bc, i_bc, self.params.rb + self.params.rc>>,
                         <<i_be, B, -One>>, <<i_be, E, One>>,
                         <<i_be, i_be, self.params.rb + self.params.re>> >>,
                      <<>>,
                      << <<v_bc, v_bc, self.dyn_pnc_geq>>, <<v_be, v_be, self.dyn_pne_geq>> >>,
                      <<>>,
                      << <<v_bc, 0, self.dyn_pnc_ieq>>, <<v_be, 0, self.dyn_pne_ieq>> >>,
                      {<<v_bc, i_bc>>, <<i_bc, v_bc>>, <<v_be, i_be>>, <<i_be, v_be>>})]_allvars

\* a PNP transistor stamped on three different pins, after another component
C12_Witness ==
    /\ op.name = "stamp"
    /\ op.args = <<2>>
    /\ 2 \in StampedBJTs
    /\ comps[2].params.transistor_type = "PNP"
    /\ Cardinality({comps[2].pin[k] : k \in 0 .. 2}) = 3
    /\ a_matrix[comps[2].pin[2]][comps[2].l[2]].g = ar(comps[2].params)
    /\ a_matrix[comps[2].l[0]][comps[2].l[0]].g_dyn = <<comps[2].dyn_pnc_geq>>
    /\ b[comps[2].l[1]].g_dyn = <<comps[2].dyn_pne_ieq>>

\* the step leaves the caches lu and pre_lu of every cell alone
CachesKept ==
    /\ \A r \in DOMAIN a_matrix : \A c \in DOMAIN a_matrix :
          /\ a_matrix'[r][c].lu = a_matrix[r][c].lu
          /\ a_matrix'[r][c].pre_lu = a_matrix[r][c].pre_lu
    /\ \A r \in DOMAIN b : b'[r].lu = b[r].lu /\ b'[r].pre_lu = b[r].pre_lu

\* C13: Diode::stamp adds +1, -1, -1 in column i_pn of the rows +, -, v_pn, and
\* -1, +1, +1, Rs on row i_pn; geq comes in only as a dynamic reference on
\* A[v_pn][v_pn] and ieq only as a dynamic reference on b[v_pn]; no other cell
\* is touched
C13_DiodeStamp ==
    [][\A i \in 1 .. Len(comps) :
          (StampStep(i) /\ comps[i].type = "Diode") =>
              LET self == comps[i]
                  plus  == self.l0
                  minus == self.l1
                  v_pn  == self.l2
                  i_pn  == self.l3
              IN  /\ CellsChangeBy(
                         << <<plus, i_pn, One>>, <<minus, i_pn, -One>>, <<v_pn, i_pn, -One>>,
                            <<i_pn, plus, -One>>, <<i_pn, minus, One>>, <<i_pn, v_pn, One>>,
                            <<i_pn, i_pn, self.rs>> >>,
                         <<>>,
                         << <<v_pn, v_pn, self.dyn_index0>> >>,
                         <<>>,
                         << <<v_pn, 0, self.dyn_index1>> >>,
                         {})
                  /\ CachesKept
                  /\ self.rs = 10 * One
                  /\ vars'[self.dyn_index0] = self.pn.geq
                  /\ vars'[self.dyn_index1] = self.pn.ieq]_allvars

\* a diode stamped after another component, on two different pins
C13_Witness ==
    /\ op.name = "stamp"
    /\ op.args = <<2>>
    /\ stamped[2]
    /\ comps[2].type = "Diode"
    /\ comps[2].l0 # comps[2].l1
    /\ stamped[1]
    /\ comps[1].type # "Resistor"
    /\ a_matrix[comps[2].l3][comps[2].l3].g = 10 * One
    /\ a_matrix[comps[2].l2][comps[2].l2].g_dyn = <<comps[2].dyn_index0>>
    /\ b[comps[2].l2].g_dyn = <<comps[2].dyn_index1>>
    /\ comps[2].dyn_index0 # comps[2].dyn_index1

CompStep(name, i) == op'.name = name /\ op'.args[1] = i

\* C15: Capacitor::update sets state_var to the b[s].lu of before the call and
\* voltage to b[a].lu - b[b].lu, overwrites b[s].lu with C * voltage and writes
\* the new state_var into the capacitor's pool slot: state_var never takes
\* the display value
C15_CapacitorUpdate ==
    [][\A i \in 1 .. Len(comps) :
          (CompStep("update", i) /\ comps[i].type = "Capacitor") =>
              LET self == comps[i]
                  volt == b[self.l0].lu - b[self.l1].lu
              IN  /\ comps'[i].state_var = b[self.l2].lu
                  /\ comps'[i].voltage = volt
                  /\ b'[self.l2].lu = FMul(self.c, volt)
                  /\ vars'[self.dyn_index] = b[self.l2].lu
                  /\ \A r \in DOMAIN b : r # self.l2 => b'[r] = b[r]
                  /\ a_matrix' = a_matrix]_allvars

\* an update whose state differs from the display value it left in b[s].lu
C15_Witness ==
    /\ op.name = "update"
    /\ \E i \in 1 .. Len(comps) :
          /\ op.args = <<i>>
          /\ comps[i].type = "Capacitor"
          /\ comps[i].voltage # 0
          /\ comps[i].state_var # 0
          /\ b[comps[i].l2].lu = FMul(comps[i].c, comps[i].voltage)
          /\ b[comps[i].l2].lu # comps[i].state_var
          /\ vars[comps[i].dyn_index] = comps[i].state_var

\* C16: Capacitor::scale_time(k) replaces state_var by q + (state_var - q) * k
\* with q = 2 * C * voltage, leaves voltage and all matrix cells unchanged and
\* writes the new state_var into the capacitor's pool slot
C16_CapacitorScaleTime ==
    [][\A i \in 1 .. Len(comps) :
          (CompStep("scale_time", i) /\ comps[i].type = "Capacitor") =>
              LET self == comps[i]
                  k    == op'.args[2]
                  q    == FMul(2 * self.c, self.voltage)
                  new  == q + FMul(self.state_var - q, k)
              IN  /\ comps'[i] = [self EXCEPT !.state_var = new]
                  /\ vars' = [vars EXCEPT ![self.dyn_index] = new]
                  /\ a_matrix' = a_matrix
                  /\ b' = b]_allvars

\* a rescaling by 2 of a state with a voltage part and a current part
C16_Witness ==
    /\ op.name = "scale_time"
    /\ op.args[2] = 2 * One
    /\ \E i \in 1 .. Len(comps) :
          /\ op.args[1] = i
          /\ comps[i].type = "Capacitor"
          /\ comps[i].voltage # 0
          /\ comps[i].state_var # FMul(2 * comps[i].c, comps[i].voltage)
          /\ vars[comps[i].dyn_index] = comps[i].state_var
          /\ comps[i].state_var # 0

\* this step is the constructor call name, and it appended comps'[Len(comps')]
NewStep(name) == op'.name = name /\ Len(comps') = Len(comps) + 1

C18_VoltageSourceStamp ==
    [][/\ \A i \in 1 .. Len(comps) :
             (StampStep(i) /\ comps[i].type = "VoltageSource") =>
                 LET self == comps[i]
                     a    == self.l0
                     bb   == self.l1
                     n    == self.l2
                 IN  /\ CellsChangeBy(
                            << <<a, n, -One>>, <<bb, n, One>>, <<n, a, One>>, <<n, bb, -One>> >>,
                            <<>>, <<>>,
                            << <<n, 0, self.v - b[n].g>> >>,
                            <<>>, {})
                     /\ b'[n].g = self.v
                     /\ nodes'[n].info_type = "CURRENT"
                     /\ nodes'[n].name = <<"i:V(", self.v, a, bb>>
                     /\ \A r \in DOMAIN nodes : r # n => nodes'[r] = nodes[r]
                     /\ vars' = vars
                     /\ net_size' = net_size
       /\ NewStep("VoltageSource::new") =>
             /\ net_size' = net_size + 1
             /\ comps'[Len(comps')].l2 = net_size
             /\ comps'[Len(comps')].l2 \notin {comps'[Len(comps')].l0, comps'[Len(comps')].l1}
             /\ vars' = vars]_allvars

\* a voltage source stamped between two different pins after another component
C18_Witness ==
    /\ op.name = "stamp"
    /\ op.args = <<2>>
    /\ stamped[2]
    /\ comps[2].type = "VoltageSource"
    /\ comps[2].l0 # comps[2].l1
    /\ comps[1].type \in {"Diode", "VoltageSource"}
    /\ b[comps[2].l2].g = 5 * One
    /\ nodes[comps[2].l2].info_type = "CURRENT"
    /\ a_matrix[comps[2].l2][comps[2].l0].g = One

\* the voltage functions of the netlist
VoltageFunctions == {i \in 1 .. Len(comps) : comps[i].type = "VoltageFunction"}

\* C19: a VoltageFunction is stamped like a voltage source, its voltage coming
\* in only through a dynamic reference on b[i]: the slot holds f(0) after the
\* stamp, and after every update the device's v and its pool slot both equal
\* f(system.time) for the time at the moment of the call
C19_VoltageFunction ==
    /\ \A i \in VoltageFunctions :
          LET self == comps[i]
          IN  /\ a_matrix[self.l0][self.l2].g = -One
              /\ a_matrix[self.l1][self.l2].g = One
              /\ a_matrix[self.l2][self.l0].g = One
              /\ a_matrix[self.l2][self.l1].g = -One
              /\ b[self.l2].g = 0
              /\ b[self.l2].g_dyn[1] = self.dyn_index
              /\ self.v = Apply(self.f, 0)
              /\ vars[self.dyn_index] = Apply(self.f, 0)
    /\ [][\A i \in VoltageFunctions :
             CompStep("update", i) =>
                 /\ comps'[i].v = Apply(comps[i].f, time)
                 /\ vars'[comps[i].dyn_index] = Apply(comps[i].f, time)
                 /\ time' = time]_allvars

\* an update at a later time that changed the voltage, next to a function
\* whose f(0) is not 0
C19_Witness ==
    /\ op.name = "update"
    /\ time > 0
    /\ \E i \in VoltageFunctions :
          /\ op.args = <<i>>
          /\ comps[i].f = "ramp"
          /\ comps[i].v = 2 * time
          /\ vars[comps[i].dyn_index] = 2 * time
    /\ \E i \in VoltageFunctions : comps[i].f = "one" /\ vars[comps[i].dyn_index] = One

(***************************************************************************)
(* SpecStep: the solver driver of spec section 4.4.  The repository holds  *)
(* no driver (MAX_ITER is declared at sim.rs:14 and used nowhere), so the  *)
(* loop below is written from the spec; what it calls on the cells and the *)
(* components is the code above.  op is the driver's position: name is the *)
(* phase, args the number of factor/solve iterations of the step so far,   *)
(* ret the result of the last step.                                        *)
(***************************************************************************)
\* the driver is at phase name after n iterations; res is the last result
At(name, n, res) == [name |-> name, args |-> <<n>>, ret |-> res]

\* refresh(step_scale): init_lu on every cell
RefreshSys(m, s) ==
    [m EXCEPT !.a_matrix = [r \in DOMAIN m.a_matrix |->
                               [c \in DOMAIN m.a_matrix[r] |-> init_lu(m.a_matrix[r][c], s)]],
              !.b = [r \in DOMAIN m.b |-> init_lu(m.b[r], s)]]

\* load(pool): update_pre on every cell
LoadSys(m) ==
    [m EXCEPT !.a_matrix = [r \in DOMAIN m.a_matrix |->
                               [c \in DOMAIN m.a_matrix[r] |->
                                   update_pre(m.a_matrix[r][c], m.vars)]],
              !.b = [r \in DOMAIN m.b |-> update_pre(m.b[r], m.vars)]]

RECURSIVE UpdateDynamicAll(_, _)
\* update_dynamic on every component
UpdateDynamicAll(cs, m) ==
    IF cs = <<>> THEN m ELSE UpdateDynamicAll(Tail(cs), update_dynamic(Head(cs), m))

RECURSIVE NewtonAll(_, _)
\* newton on every component: the components after it, and whether all of them
\* returned true
NewtonAll(cs, m) ==
    IF cs = <<>> THEN [comps |-> <<>>, ret |-> TRUE]
    ELSE LET r    == newton(Head(cs), m)
             rest == NewtonAll(Tail(cs), r.m)
         IN  [comps |-> <<r.self>> \o rest.comps, ret |-> r.ret /\ rest.ret]

RECURSIVE UpdateAll(_, _)
\* update on every component: the components and the system after it
UpdateAll(cs, m) ==
    IF cs = <<>> THEN [comps |-> <<>>, m |-> m]
    ELSE LET r    == update(Head(cs), m)
             rest == UpdateAll(Tail(cs), r.m)
         IN  [comps |-> <<r.self>> \o rest.comps, m |-> rest.m]

\* the netlists stepped: the ones with a non-linear device on two nets
StepNetlists == {items \in Netlists : items[1].type = "Diode"}

\* the Newton loop gives up after n iterations without convergence
Exhausted_Never(n) == FALSE

Exhausted(n) == n >= MAX_ITER

\* the state after an aborted step: the current one
Rollback_KeepsCurrent(m, cs, cp) == [m |-> m, comps |-> cs]

\* the state after an aborted step: time, pool and components as at its start
Rollback(m, cs, cp) ==
    [m |-> [m EXCEPT !.time = cp.time, !.vars = cp.vars], comps |-> cp.comps]

StepInit ==
    \E items \in StepNetlists :
        LET r == BuildNetlist(set_size(DefaultSystem, 2), <<>>, items)
            m == RefreshSys(r.m, One)
        IN  /\ nodes = m.nodes
            /\ a_matrix = m.a_matrix
            /\ b = m.b
            /\ time = m.time
            /\ net_size = m.net_size
            /\ vars = m.vars
            /\ comps = r.comps
            /\ stamped = [i \in 1 .. Len(r.comps) |-> TRUE]
            /\ step_scale = One
            /\ base = 2
            /\ op = At("idle", 0, "none")
            /\ pn = FreshDiodePN
            /\ calls = <<>>
            /\ checkpoint = [time |-> m.time, vars |-> m.vars, comps |-> r.comps]
            /\ NoEditor

\* steps a and b: update_dynamic on every component, then load
StepBegin ==
    /\ op.name = "idle"
    /\ time + FDiv(One, step_scale) <= MaxTime * One
    /\ \E m1 \in {UpdateDynamicAll(comps, Sys)} : \E m2 \in {LoadSys(m1)} : SetSys(m2)
    /\ checkpoint' = [time |-> time, vars |-> vars, comps |-> comps]
    /\ op' = At("loaded", 0, op.ret)
    /\ UNCHANGED <<guivars, comps, stamped, step_scale, base, pn, calls>>

\* step c, first half: factor and solve, the k-th of the possible solutions
StepSolve(k) ==
    /\ op.name = "loaded"
    /\ a_matrix' = [r \in DOMAIN a_matrix |->
                       [c \in DOMAIN a_matrix[r] |->
                           [a_matrix[r][c] EXCEPT !.lu = SolveValue(k, r + c)]]]
    /\ b' = [r \in DOMAIN b |-> [b[r] EXCEPT !.lu = SolveValue(k, r)]]
    /\ op' = At("solved", op.args[1] + 1, op.ret)
    /\ UNCHANGED <<guivars, checkpoint, nodes, time, net_size, vars, comps, stamped, step_scale, base, pn, calls>>

\* step c, first half, when the factorization meets a pivot below the floor:
\* the step is aborted and the state rolls back to the one it started from
StepSingular ==
    /\ op.name = "loaded"
    /\ \E r \in {Rollback(Sys, comps, checkpoint)} :
           /\ SetSys(r.m)
           /\ comps' = r.comps
    /\ op' = At("idle", op.args[1], "ErrSingular")
    /\ UNCHANGED <<guivars, checkpoint, stamped, step_scale, base, pn, calls>>

\* step c, second half, and step d: newton on every component; converged when
\* all return true, otherwise load again and repeat, or fail when exhausted
StepNewton ==
    /\ op.name = "solved"
    /\ \E r \in {NewtonAll(comps, Sys)} :
           /\ comps' = r.comps
           /\ IF r.ret
              THEN /\ op' = At("converged", op.args[1], op.ret)
                   /\ UNCHANGED sysvars
              ELSE IF Exhausted(op.args[1])
              THEN /\ op' = At("idle", op.args[1], "ErrNonConvergence")
                   /\ UNCHANGED sysvars
              ELSE /\ op' = At("loaded", op.args[1], op.ret)
                   /\ \E m2 \in {LoadSys(Sys)} : SetSys(m2)
    /\ UNCHANGED <<guivars, checkpoint, stamped, step_scale, base, pn, calls>>

\* steps e and f: update on every component, then time += dt
StepCommit ==
    /\ op.name = "converged"
    /\ \E r \in {UpdateAll(comps, Sys)} :
           /\ comps' = r.comps
           /\ SetSys([r.m EXCEPT !.time = @ + FDiv(One, step_scale)])
    /\ op' = At("idle", op.args[1], "Ok")
    /\ UNCHANGED <<guivars, checkpoint, stamped, step_scale, base, pn, calls>>

StepNext ==
    \/ StepBegin
    \/ \E k \in 0 .. Len(SolveValues) - 1 : StepSolve(k)
    \/ StepSingular
    \/ StepNewton
    \/ StepCommit

SpecStep == StepInit /\ [][StepNext]_allvars

\* C20: the Newton loop of one step performs at most MAX_ITER = 200
\* factor/solve iterations; when not every device has reported convergence
\* within that bound the step returns ErrNonConvergence and loops no further
C20_NewtonLoopBound ==
    /\ MAX_ITER = 200
    /\ op.args[1] <= MAX_ITER
    /\ [][/\ op'.args[1] <= MAX_ITER
          /\ (op.name = "solved" /\ op.args[1] = MAX_ITER /\ ~NewtonAll(comps, Sys).ret)
                => (op'.name = "idle" /\ op'.ret = "ErrNonConvergence")
          /\ (op'.ret = "ErrNonConvergence" /\ op.ret # "ErrNonConvergence")
                => (op.args[1] = MAX_ITER /\ ~NewtonAll(comps, Sys).ret)]_allvars

\* a first step that gave up after MAX_ITER iterations, the diode having
\* stepped again in the last of them
C20_Witness ==
    /\ op.name = "idle"
    /\ op.ret = "ErrNonConvergence"
    /\ op.args[1] = MAX_ITER
    /\ time = 0
    /\ \E i \in 1 .. Len(comps) :
          /\ comps[i].type = "Diode"
          /\ comps[i].pn.veq = b[comps[i].l2].lu
          /\ comps[i].pn.veq > V_TOLERANCE

\* C21: when the factorization meets a pivot below the numerical floor the
\* step returns ErrSingular, and time, the pool and the components' state
\* variables are again what they were before the step
C21_SingularRollsBack ==
    [][/\ (op.name = "idle" /\ op'.name = "loaded")
             => checkpoint' = [time |-> time, vars |-> vars, comps |-> comps]
       /\ op.name # "idle" => checkpoint' = checkpoint
       /\ (op'.ret = "ErrSingular" /\ op'.name = "idle" /\ op.name # "idle")
             => /\ op.name = "loaded"
                /\ time' = checkpoint.time
                /\ vars' = checkpoint.vars
                /\ comps' = checkpoint.comps]_allvars

\* a step aborted as singular in its second or a later iteration, after its
\* newton calls had moved the diode to the solved voltage the cells still
\* show, the diode being back at the linearization the step started from
C21_Witness ==
    /\ op.name = "idle"
    /\ op.ret = "ErrSingular"
    /\ op.args[1] >= 1
    /\ time = checkpoint.time
    /\ vars = checkpoint.vars
    /\ comps = checkpoint.comps
    /\ \E i \in 1 .. Len(comps) :
          /\ comps[i].type = "Diode"
          /\ ~WithinTolerance(comps[i].pn, b[comps[i].l2].lu)

\* C22: an invalid component (a pin outside the system, a negative resistance
\* or capacitance) is rejected at construction: no constructor call returns
\* such a component, and the call leaves the system as it was, with no net
\* and no pool slot reserved
C22_Original ==
    [][LET Invalid(self, n) ==
               \/ self.type = "Resistor" /\ self.r < 0
               \/ self.type = "Capacitor" /\ self.c < 0
               \/ self.type = "BJT" /\ \E k \in DOMAIN self.pin : self.pin[k] >= n
               \/ self.type # "BJT" /\ (self.l0 >= n \/ self.l1 >= n)
       IN  \A i \in (DOMAIN comps') \ (DOMAIN comps) :
               ~Invalid(comps'[i], net_size)]_allvars

(***************************************************************************)
(* The unit formatter (sim.rs:244-263).  Its argument v is kept as a       *)
(* decimal [m, e] = m * 10^e with m > 0, so that log10, the comparison     *)
(* with 1 and the division by a power of ten are exact; f64 rounds the     *)
(* quotient (0.001 / 1e-6 is 1000.0000000000001 there).  The result is     *)
(* the string the code returns, or a panic.                                *)
(***************************************************************************)
UNIT_VALUE_OFFSET == 4

UNIT_VALUE_MAX == 8

\* the array of UNIT_VALUE_MAX suffixes, indexed from 0 in the code
UNIT_VALUE_SUFFIXES == <<"p", "n", "u", "m", "", "k", "M", "G">>

RECURSIVE Digits(_)
\* the number of decimal digits of n > 0
Digits(n) == IF n < 10 THEN 1 ELSE 1 + Digits(n \div 10)

RECURSIVE IsPow10(_)
IsPow10(n) == n = 1 \/ (n % 10 = 0 /\ IsPow10(n \div 10))

\* the value of suff when the suffix array is indexed
SuffixIndex(v) ==
    LET \* floor(log10 v)
        fl == Digits(v.m) - 1 + v.e
        \* v.log10() as i32: the logarithm truncated toward zero
        lg == IF fl >= 0 \/ IsPow10(v.m) THEN fl ELSE fl + 1
        \* the i32 division by 3, which truncates toward zero
        s0 == UNIT_VALUE_OFFSET + Sgn(lg) * (Abs(lg) \div 3)
        \* v < 1.0
        s1 == IF fl < 0 THEN s0 - 1 ELSE s0
        s2 == IF s1 < 0 THEN 0 ELSE s1
    IN  IF s2 > UNIT_VALUE_MAX THEN UNIT_VALUE_MAX ELSE s2

RECURSIVE Normal(_)
\* the same decimal without trailing zeros in m
Normal(v) == IF v.m % 10 = 0 THEN Normal([m |-> v.m \div 10, e |-> v.e + 1]) ELSE v

RECURSIVE Dec(_)
\* the decimal digits of n >= 0
Dec(n) ==
    LET digit == <<"0", "1", "2", "3", "4", "5", "6", "7", "8", "9">>
    IN  IF n < 10 THEN digit[n + 1] ELSE Dec(n \div 10) \o digit[(n % 10) + 1]

RECURSIVE Zeros(_)
Zeros(k) == IF k <= 0 THEN "" ELSE "0" \o Zeros(k - 1)

\* format!("{:.}", vr): all the digits of vr, without an exponent, and no
\* decimal point when there is no fraction
Display(vr) ==
    LET d == Digits(vr.m)
    IN  IF vr.e >= 0 THEN Dec(vr.m) \o Zeros(vr.e)
        ELSE IF d > -vr.e
        THEN Dec(vr.m \div Pow10(-vr.e)) \o "."
                \o Zeros(-vr.e - Digits(vr.m % Pow10(-vr.e))) \o Dec(vr.m % Pow10(-vr.e))
        ELSE "0." \o Zeros(-vr.e - d) \o Dec(vr.m)

\* format_unit_value(v, unit): indexing UNIT_VALUE_SUFFIXES past its last
\* element panics
format_unit_value(v, unit) ==
    LET suff == SuffixIndex(v)
        \* v / 10^(3 * (suff - UNIT_VALUE_OFFSET))
        vr   == Normal([m |-> v.m, e |-> v.e - 3 * (suff - UNIT_VALUE_OFFSET)])
    IN  IF suff >= Len(UNIT_VALUE_SUFFIXES)
        THEN [ok |-> FALSE, text |-> "index out of bounds"]
        ELSE [ok |-> TRUE, text |-> Display(vr) \o UNIT_VALUE_SUFFIXES[suff + 1] \o unit]

\* the decimal exponents of the values formatted
MaxExp == 16

FormatInit ==
    /\ IdleSystem
    /\ NoEditor
    /\ pn = FreshDiodePN
    /\ calls = <<>>

\* format_unit_value(v, unit)
Format(v, unit) ==
    /\ op' = [name |-> "format_unit_value", args |-> <<v, unit>>,
              ret |-> format_unit_value(v, unit)]
    /\ UNCHANGED <<guivars, checkpoint, sysvars, comps, stamped, step_scale, base, pn, calls>>

\* the values formatted: 1, 5, 15 and 999 times a power of ten
FormatNext ==
    \E v \in [m : {1, 5, 15, 999}, e : -MaxExp .. MaxExp - 1], unit \in {"", " Ohms"} :
        Format(v, unit)

SpecFormat == FormatInit /\ [][FormatNext]_allvars

\* C23: for every v > 0 the suffix index is clamped into 0..7, so the
\* formatter selects one of the eight suffixes and returns a string without
\* failing, also for v >= 1e12
C23_Original ==
    op.name = "format_unit_value"
        => /\ SuffixIndex(op.args[1]) \in 0 .. 7
           /\ op.ret.ok

\* C24: for all v > 0 and unit u, format_unit_value(v, u) is a prefix m with
\* 1 <= m < 1000, then the suffix of the power k of 1000 with v = m * 1000^k
\* (k = -4..3 for p..G), then u: 1500 gives 1.5k, 150000 gives 150k, 0.015
\* gives 15m, 0.0015 gives 1.5m, 0.00015 gives 150u
C24_Original ==
    op.name = "format_unit_value"
        => LET v == op.args[1]
           IN  /\ op.ret.ok
               /\ \E k \in -4 .. 3 :
                     /\ Digits(v.m) - 1 + v.e - 3 * k \in 0 .. 2
                     /\ op.ret.text
                          = Display(Normal([m |-> v.m, e |-> v.e - 3 * k]))
                               \o UNIT_VALUE_SUFFIXES[k + 5] \o op.args[2]

\* C25: at the exact boundary values the formatter picks the higher unit with
\* prefix 1: with an empty unit, 1 gives "1", 1e3 gives "1k", 1e6 gives "1M"
\* and 1e-3 gives "1m"
C25_Original ==
    (op.name = "format_unit_value" /\ op.args[2] = "")
        => LET v == Normal(op.args[1])
           IN  /\ v = [m |-> 1, e |-> 0] => op.ret = [ok |-> TRUE, text |-> "1"]
               /\ v = [m |-> 1, e |-> 3] => op.ret = [ok |-> TRUE, text |-> "1k"]
               /\ v = [m |-> 1, e |-> 6] => op.ret = [ok |-> TRUE, text |-> "1M"]
               /\ v = [m |-> 1, e |-> -3] => op.ret = [ok |-> TRUE, text |-> "1m"]

\* C26: the solver's default constants are G_MIN = 1e-12, V_TOLERANCE = 5e-5,
\* V_THERMAL = 0.0258 V and MAX_ITER = 200, so that a junction with n = 1.24
\* has nvt = 1.24 * 0.0258
C26_Original ==
    /\ G_MIN = [m |-> 1, e |-> -12]
    /\ V_TOLERANCE * 100000 = 5 * One
    /\ V_THERMAL * 10000 = 258 * One
    /\ MAX_ITER = 200
    /\ pn.is = DiodeIs => pn.nvt * 10000 = 258 * DiodeN

\* C26, amended: the constants are G_MIN = 1e-12, V_TOLERANCE = 5e-5,
\* V_THERMAL = 0.026 V and MAX_ITER = 200; with them the junction of
\* tests::test_pn (is = 35e-12, n = 1.24) has nvt = 1.24 * 0.026 and the
\* critical voltage 0.65429.. the test expects, and its first Newton step, to
\* 0.5 V, leaves the ieq 0.00276.. the test expects, to one unit of the grid
C26_Constants ==
    /\ G_MIN = [m |-> 1, e |-> -12]
    /\ V_TOLERANCE * 100000 = 5 * One
    /\ V_THERMAL * 1000 = 26 * One
    /\ MAX_ITER = 200
    /\ pn.is = DiodeIs =>
          /\ pn.nvt = 3224
          /\ pn.vcrit = 65429
          /\ (Len(calls) > 0 /\ calls[1].v = 50000) => Abs(PnPost(1).ieq - 276) <= 1

\* the junction of tests::test_pn after newton(0.5) as its first call
C26_Witness ==
    /\ pn.is = DiodeIs
    /\ Len(calls) > 0
    /\ calls[1].v = 50000
    /\ ~calls[1].ret
    /\ PnPost(1).veq = 50000

\* C27: after every device operation (update_dynamic, newton, update) the
\* pool slots of a Diode or BJT equal its junctions' current geq and ieq; so
\* when load runs after a newton call that re-linearized a junction, the pool
\* already holds the new values and the reloaded cells reflect them
C27_Original ==
    [][LET PoolFresh(self, pool) ==
               CASE self.type = "Diode" ->
                       /\ pool[self.dyn_index0] = self.pn.geq
                       /\ pool[self.dyn_index1] = self.pn.ieq
                 [] self.type = "BJT" ->
                       /\ pool[self.dyn_pnc_ieq] = self.pnc.ieq
                       /\ pool[self.dyn_pnc_geq] = self.pnc.geq
                       /\ pool[self.dyn_pne_ieq] = self.pne.ieq
                       /\ pool[self.dyn_pne_geq] = self.pne.geq
                 [] OTHER -> TRUE
       IN  /\ op'.name \in {"update_dynamic", "newton", "update"}
                 => PoolFresh(comps'[op'.args[1]], vars')
           /\ (op.name = "newton" /\ op.ret = FALSE /\ op'.name = "update_pre")
                 => /\ PoolFresh(comps[op.args[1]], vars)
                    /\ LET d == comps[op.args[1]]
                       IN  d.type = "Diode"
                              => /\ b'[d.l2].lu = b[d.l2].pre_lu + d.pn.ieq
                                 /\ a_matrix'[d.l2][d.l2].lu
                                       = a_matrix[d.l2][d.l2].pre_lu + d.pn.geq]_allvars

\* C28: every call to BJT::newton gives both junctions their Newton step:
\* when the base-emitter junction's solved voltage is out of tolerance the
\* call re-linearizes that junction (pne.veq moves), whether or not the
\* base-collector junction is within tolerance
C28_Original ==
    [][\A i \in 1 .. Len(comps) :
          (/\ op'.name = "newton"
           /\ op'.args = <<i>>
           /\ comps[i].type = "BJT"
           /\ ~WithinTolerance(comps[i].pne, b[comps[i].l[1]].lu))
              => /\ comps'[i].pne = JunctionPN_newton(comps[i].pne, b[comps[i].l[1]].lu).pn
                 /\ comps'[i].pne.veq # comps[i].pne.veq]_allvars

\* the pool slots a component holds
PoolIndices(self) ==
    CASE self.type \in {"Capacitor", "VoltageFunction"} -> <<self.dyn_index>>
      [] self.type = "Diode" -> <<self.dyn_index0, self.dyn_index1>>
      [] self.type = "BJT" ->
            <<self.dyn_pnc_ieq, self.dyn_pnc_geq, self.dyn_pne_ieq, self.dyn_pne_geq>>
      [] OTHER -> <<>>

RECURSIVE AllPool(_)
\* the pool slots of the components, in the order of construction
AllPool(cs) == IF cs = <<>> THEN <<>> ELSE PoolIndices(Head(cs)) \o AllPool(Tail(cs))

\* C29: after set_size(N) and the construction of any components, net_size is
\* N + capacitors + voltage sources + probes + voltage functions + 2 * diodes
\* + 4 * BJTs and the pool has capacitors + voltage functions + 2 * diodes
\* + 4 * BJTs slots, a slot being 0.0 until its component is stamped; every
\* internal net and every pool slot a component holds is in range and held
\* by no other component and no other field
C29_NetAndPoolCounts ==
    LET nets == AllReserved(comps)
        pool == AllPool(comps)
        Count(types) == Cardinality({i \in 1 .. Len(comps) : comps[i].type \in types})
    IN  /\ net_size = base + Count({"Capacitor", "VoltageSource", "VoltageProbe",
                                    "VoltageFunction"})
                           + 2 * Count({"Diode"}) + 4 * Count({"BJT"})
        /\ VLen(vars) = Count({"Capacitor", "VoltageFunction"})
                           + 2 * Count({"Diode"}) + 4 * Count({"BJT"})
        /\ DOMAIN vars = 0 .. VLen(vars) - 1
        /\ \A k \in 1 .. Len(nets) : nets[k] \in base .. net_size - 1
        /\ \A j, k \in 1 .. Len(nets) : j # k => nets[j] # nets[k]
        /\ \A k \in 1 .. Len(pool) : pool[k] \in DOMAIN vars
        /\ \A j, k \in 1 .. Len(pool) : j # k => pool[j] # pool[k]
        /\ \A i \in 1 .. Len(comps) :
              ~stamped[i] => \A k \in 1 .. Len(PoolIndices(comps[i])) :
                                vars[PoolIndices(comps[i])[k]] = 0

\* a Diode and a BJT constructed on two base nodes: 2 + 2 + 4 nets and 2 + 4
\* pool slots, the diode stamped and its slot written, the transistor's not
C29_Witness ==
    /\ base = 2
    /\ Len(comps) = 2
    /\ comps[1].type = "Diode"
    /\ comps[2].type = "BJT"
    /\ net_size = 8
    /\ VLen(vars) = 6
    /\ stamped[1]
    /\ ~stamped[2]

(***************************************************************************)
(* The schematic editor's selection (gui.rs).  MyApp::update handles the   *)
(* keys of one frame in the order Delete, P, N; a frame may hold any of    *)
(* them.  Vec::remove panics on an index that is not below the length;     *)
(* the panic ends the program.                                             *)
(***************************************************************************)
\* MyApp::default: the four parts, by component type, and the selection
MyApp_default ==
    [graphical_parts |-> <<"Capacitor", "Resistor", "TransistorNPN", "TransistorPNP">>,
     part_selected |-> 0,
     panicked |-> FALSE]

\* the Delete handler without the adjustment of the selection
KeyDelete_KeepsSelection(app) ==
    IF Len(app.graphical_parts) > 0
    THEN IF app.part_selected >= Len(app.graphical_parts)
         THEN [app EXCEPT !.panicked = TRUE]
         ELSE [app EXCEPT !.graphical_parts =
                              [k \in 1 .. Len(@) - 1 |->
                                  IF k <= app.part_selected THEN @[k] ELSE @[k + 1]]]
    ELSE app

\* the Delete handler
KeyDelete(app) ==
    IF Len(app.graphical_parts) > 0
    THEN IF app.part_selected >= Len(app.graphical_parts)
         THEN [app EXCEPT !.panicked = TRUE]
         ELSE LET \* graphical_parts.remove(part_selected), the index counted from 0
                  parts == [k \in 1 .. Len(app.graphical_parts) - 1 |->
                               IF k <= app.part_selected
                               THEN app.graphical_parts[k]
                               ELSE app.graphical_parts[k + 1]]
              IN  [app EXCEPT !.graphical_parts = parts,
                              !.part_selected =
                                  IF Len(parts) > 0 /\ @ > Len(parts) - 1
                                  THEN Len(parts) - 1 ELSE @]
    ELSE app

\* the P handler: previous
KeyP(app) == [app EXCEPT !.part_selected = IF @ > 0 THEN @ - 1 ELSE 0]

\* the N handler: next
KeyN(app) ==
    IF Len(app.graphical_parts) > 0
    THEN [app EXCEPT !.part_selected =
                 IF @ < Len(app.graphical_parts) - 1
                 THEN @ + 1 ELSE Len(app.graphical_parts) - 1]
    ELSE app

\* MyApp::update on a frame with the given keys
MyApp_update(app, keys) ==
    LET a1 == IF "Delete" \in keys THEN KeyDelete(app) ELSE app
        a2 == IF a1.panicked THEN a1 ELSE IF "P" \in keys THEN KeyP(a1) ELSE a1
    IN  IF a2.panicked THEN a2 ELSE IF "N" \in keys THEN KeyN(a2) ELSE a2

GuiInit ==
    /\ IdleSystem
    /\ pn = FreshDiodePN
    /\ calls = <<>>
    /\ graphical_parts = MyApp_default.graphical_parts
    /\ part_selected = MyApp_default.part_selected

\* one frame: update with the keys pressed
Frame(keys) ==
    /\ op.name = "update" => op.ret # "panic"
    /\ LET app == MyApp_update([graphical_parts |-> graphical_parts,
                                part_selected |-> part_selected,
                                panicked |-> FALSE], keys)
       IN  /\ graphical_parts' = app.graphical_parts
           /\ part_selected' = app.part_selected
           /\ op' = [name |-> "update", args |-> <<keys>>,
                     ret |-> IF app.panicked THEN "panic" ELSE "ok"]
    /\ UNCHANGED <<checkpoint, sysvars, comps, stamped, step_scale, base, pn, calls>>

GuiNext == \E keys \in SUBSET {"Delete", "P", "N"} : Frame(keys)

SpecGui == GuiInit /\ [][GuiNext]_allvars

\* C30: after any sequence of Delete, P and N key events from the initial
\* four parts with part_selected = 0, part_selected is a valid index of
\* graphical_parts whenever the list is not empty, so the Delete handler's
\* remove(part_selected) is never out of bounds; and Delete on an empty list
\* changes nothing
C30_SelectionValid ==
    /\ part_selected \in 0 .. Len(graphical_parts) - 1
    /\ [][/\ graphical_parts' # <<>> => part_selected' \in 0 .. Len(graphical_parts') - 1
          /\ op'.ret # "panic"
          /\ (graphical_parts = <<>> /\ op'.args = <<{"Delete"}>>)
                => UNCHANGED guivars]_allvars

\* Delete alone in a frame removed the selected last of the four parts, and
\* the selection moved to the new last part
C30_Witness ==
    /\ op.name = "update"
    /\ op.args = <<{"Delete"}>>
    /\ graphical_parts = <<"Capacitor", "Resistor", "TransistorNPN">>
    /\ part_selected = 2

====
